---- MODULE Spec2Model ----
(***************************************************************************)
(* A model of the OpenDuckRust runtime: the Feetech servo bus              *)
(* (runtime/src/motors.rs), the gamepad input thread and its single-slot   *)
(* channel (runtime/src/controller.rs), and the parts of main              *)
(* (runtime/src/main.rs) that drive them.                                  *)
(*                                                                         *)
(* Units.  Bytes are 0..255.  An angle is an integer number of angle       *)
(* units, AnglePerStep of them to one raw servo step (a full rotation is   *)
(* 4096 raw steps), so that rad_to_raw / raw_to_rad are exact on the       *)
(* represented angles.  A velocity is an integer number of 1e-4 RPM.       *)
(***************************************************************************)
EXTENDS Integers, Sequences, FiniteSets, TLC

VARIABLES
    pc,          \* main: the call it makes next
    args,        \* main: the command line (kp, kd)
    offsets,     \* MotorController.offsets, by joint index (absent name = 0)
    kps,         \* MotorController.kps
    kds,         \* MotorController.kds
    dev,         \* the servos: dev[id][addr] is the last value written there
    wire,        \* the frames the last operation wrote to the port, in order
    lastOp,      \* the last MotorController operation main called
    lastOk,      \* whether it returned Ok / Some
    lastArg,     \* its argument (gains, or the name -> angle map)
    resp,        \* what the servos answered to the last group read
    readResult,  \* the last group read's result: <<>> for None, <<v>> for Some(v)
    xbox,        \* main's xbox_controller: "unset", "none", "some", "dropped"
    worker,      \* controller_worker: "unspawned", "init", "top", "sample", "exited"
    a_pressed,   \* controller_worker's a_pressed
    buttons_a,   \* controller_worker's buttons.a
    now,         \* start_time.elapsed() at the last button update, in ms
    tick,        \* number of sampling ticks that updated the buttons
    data_ch,     \* the bounded(1) channel of ControllerOutput
    stop_ch,     \* the bounded(1) stop channel
    last_output, \* XBoxController.last_output
    paused,      \* main's paused
    computed,    \* history: sampling ticks whose update set a.triggered
    returned,    \* history: sampling ticks whose output get_last_command returned
    toggles,     \* history: toggles[t] = iterations that toggled on tick t's output
    ck_pc,       \* checksum round trip: "idle", "payload", "encoded", "changed"
    payload,     \* the bytes of a frame after its header, before its checksum
    frame,       \* the frame as encoded
    received,    \* the frame as a receiver sees it
    main_filter, \* main's action_filter: <<>> for None, <<filter>> for Some
    inferred,    \* history: the actions policy.infer has returned, in order
    handed,      \* history: <<>>, or <<the targets given to the last
                 \* set_position_all call of the loop, whether it returned Ok>>
    phase_tracker,  \* main's PhaseTracker
    phase_call,  \* history: the last call on phase_tracker, its argument
                 \* and the tracker before it
    offset_given,  \* history: the configured offset plus every delta given
                   \* to adjust_offset
    adjusts,     \* number of adjust_offset calls made
    run_start,   \* history: the step index before the run of advances counted
    run_len,     \* history: advances counted, the increment unchanged (0: none)
    presses,     \* history: the times of the updates that saw a press begin
    triggers,    \* history: the times of the updates that set triggered
    last_action,            \* main's last_action
    last_last_action,       \* main's last_last_action
    last_last_last_action,  \* main's last_last_last_action
    motor_targets,          \* main's motor_targets
    last_commands,          \* main's last_commands
    dof_pos,                \* main's dof_pos in the tick under way
    policy,      \* the loaded policy: its input and output lengths
    iterations,  \* number of control-loop iterations started
    iter,        \* history of the iteration under way: its calls, its outcome
                 \* and the loop's state when it started
    stops,       \* history, per producer thread: stop() calls made, whether
                 \* one was made while the thread ran, stop signals received
    imu,         \* main's imu_sensor: "absent", "unset", "failed", "some", "dropped"
    imu_pc,      \* imu_worker: "unspawned", "top", "read", "send", "evict",
                 \* "resend", "exited"
    imu_ch,      \* the bounded(1) channel of ImuData
    imu_stop_ch, \* the IMU's bounded(1) stop channel
    last_data,   \* Imu.last_data: the number of the sample (0: ImuData::default)
    imu_n,       \* number of samples imu_worker has built
    published,   \* history: the newest sample whose try_send returned Ok
    gets,        \* number of get_data calls made
    unit_pc,     \* unit round trip: "idle", "rad", "raw", "back"
    rad_in,      \* the angle converted
    raw_out,     \* rad_to_raw(rad_in)
    rad_back,    \* raw_to_rad(raw_out)
    action_filter,  \* an ActionFilter: window_size, buffer
    pushed,      \* history: the vectors pushed into action_filter, in order
    filtered,    \* the last result of action_filter.get_filtered_action()
    filtered_at, \* history: the number of pushes made before that call (-1: none)
    low_pass,    \* a LowPassActionFilter
    lp_target,   \* the vector pushed again and again
    lp_ticks,    \* history: push-and-get ticks made with lp_target
    disables     \* history: the turn_off calls made, their budget and result

busVars == <<pc, args, offsets, kps, kds, dev, wire, lastOp, lastOk, lastArg,
             resp, readResult>>

inputVars == <<xbox, worker, a_pressed, buttons_a, now, tick, data_ch, stop_ch,
               last_output, paused, computed, returned, toggles>>

checksumVars == <<ck_pc, payload, frame, received>>

phaseVars == <<phase_tracker, phase_call, offset_given, adjusts, run_start,
               run_len>>

buttonVars == <<presses, triggers>>

loopVars == <<last_action, last_last_action, last_last_last_action,
              motor_targets, last_commands, dof_pos, policy, iterations, iter,
              main_filter, inferred, handed>>

restVars == <<phaseVars, buttonVars, loopVars>>

imuVars == <<imu, imu_pc, imu_ch, imu_stop_ch, last_data, imu_n, published,
             gets>>

unitVars == <<unit_pc, rad_in, raw_out, rad_back>>

filterVars == <<action_filter, pushed, filtered, filtered_at>>

lowPassVars == <<low_pass, lp_target, lp_ticks>>

otherVars == <<unitVars, filterVars, lowPassVars, disables>>

moreVars == <<stops, imuVars, otherVars>>

vars == <<busVars, inputVars, checksumVars, restVars, moreVars>>

----------------------------------------------------------------------------
(* Protocol constants, motors.rs:15-27, 54 *)

HEADER == <<255, 255>>
INST_WRITE == 3
INST_SYNC_WRITE == 131
INST_SYNC_READ == 130
ADDR_TORQUE_ENABLE == 40
ADDR_GOAL_POSITION == 42
ADDR_PRESENT_POSITION == 56
ADDR_PRESENT_SPEED == 58
ADDR_P_GAIN == 21
ADDR_D_GAIN == 22
BROADCAST_ID == 254
NUM_DOFS == 14

JOINT_IDS == <<20, 21, 22, 23, 24, 30, 31, 32, 33, 10, 11, 12, 13, 14>>

Joints == 1..NUM_DOFS

IdSet == {JOINT_IDS[i] : i \in Joints}

(* One raw step is AnglePerStep angle units. *)
AnglePerStep == 100

(* default_init_positions, in angle units (rad * 4096 * AnglePerStep / 2pi,
   rounded to the nearest unit). *)
default_init_positions ==
    <<130, 3455, -41070, 89180, -51109, 0, 0, 0, 0,
      -196, -4237, 41396, 89897, -51891>>

----------------------------------------------------------------------------
(* Pure helpers *)

(* data.iter().map(|&b| b as u16).sum(), before any wrapping: the sum of
   s[lo..hi], by halves. *)
RECURSIVE SumRange(_, _, _)
SumRange(s, lo, hi) ==
    IF lo > hi THEN 0
    ELSE IF lo = hi THEN s[lo]
    ELSE LET mid == (lo + hi) \div 2
         IN SumRange(s, lo, mid) + SumRange(s, mid + 1, hi)

SumBytes(s) == SumRange(s, 1, Len(s))

(* compute_checksum: the sum is a u16 (wrapping), !sum is its bitwise
   complement, `as u8` keeps the low byte, & 0xFF is then the identity. *)
compute_checksum_nocomplement(data) ==
    (SumBytes(data) % 65536) % 256

(* A checksum that keeps seven bits of the sum. *)
compute_checksum_7bit(data) == 127 - (SumBytes(data) % 128)

compute_checksum(data) ==
    LET sum == SumBytes(data) % 65536
        notsum == 65535 - sum
    IN (notsum % 256) % 256

(* f64 -> i16 `as` cast of x = num / den (den > 0): truncation toward zero,
   saturating at the i16 range. *)
TruncDiv(num, den) ==
    IF num >= 0 THEN num \div den ELSE -((-num) \div den)

(* A cast that keeps the low 16 bits. *)
WrapI16(v) == ((v + 32768) % 65536) - 32768

SatI16(v) ==
    IF v > 32767 THEN 32767 ELSE IF v < -32768 THEN -32768 ELSE v

Clamp(v, lo, hi) ==
    IF v < lo THEN lo ELSE IF v > hi THEN hi ELSE v

(* rad_to_raw rounding up to the next raw step. *)
rad_to_raw_ceil(rad) ==
    LET raw == SatI16(TruncDiv(rad + 2048 * AnglePerStep, AnglePerStep) + 1)
    IN Clamp(raw, 0, 4095)

(* rad_to_raw: (degrees / 360 * 4096 + 2048) as i16, clamped to 0..4095. *)
rad_to_raw(rad) ==
    LET raw == SatI16(TruncDiv(rad + 2048 * AnglePerStep, AnglePerStep))
    IN Clamp(raw, 0, 4095)

(* raw_to_rad: (raw - 2048) / 4096 * 360 degrees, in angle units. *)
raw_to_rad(raw) == (raw - 2048) * AnglePerStep

(* raw_to_rad_per_sec: rpm = raw * 0.0116, here in 1e-4 RPM (the factor
   pi / 30 to rad/s is a change of unit). *)
raw_to_rad_per_sec(raw) == raw * 116

(* write_i16::<LittleEndian>: two's complement, low byte first. *)
write_i16_le(v) ==
    LET u == IF v < 0 THEN v + 65536 ELSE v
    IN <<u % 256, (u \div 256) % 256>>

(* read_i16::<LittleEndian> on a 2-byte slice. *)
read_i16_le(b) ==
    LET u == b[1] + 256 * b[2]
    IN IF u >= 32768 THEN u - 65536 ELSE u

----------------------------------------------------------------------------
(* Frames *)

(* write_register's packet: header, id, length, INST_WRITE, addr, data,
   checksum over packet[2..]. *)
write_register_packet(id, addr, data) ==
    LET length == (Len(data) + 3) % 256
        packet == HEADER \o <<id, length, INST_WRITE, addr>> \o data
        checksum == compute_checksum(SubSeq(packet, 3, Len(packet)))
    IN Append(packet, checksum)

RECURSIVE sync_write_params(_, _, _)
sync_write_params(ids, values, i) ==
    IF i > Len(ids) THEN <<>>
    ELSE <<ids[i]>> \o write_i16_le(values[i]) \o sync_write_params(ids, values, i + 1)

(* A plausible slip: one single-register write per joint instead of one
   group frame. *)
sync_write_packets_per_joint(ids, values) ==
    [i \in 1..Len(ids) |->
        write_register_packet(ids[i], ADDR_GOAL_POSITION, write_i16_le(values[i]))]

(* sync_write_positions' packets: one frame to the broadcast id. *)
sync_write_packets(ids, values) ==
    LET data_len == 2
        param_len == Len(ids) * (1 + data_len)
        length == (param_len + 4) % 256
        packet == HEADER \o <<BROADCAST_ID, length, INST_SYNC_WRITE,
                              ADDR_GOAL_POSITION, data_len>>
                         \o sync_write_params(ids, values, 1)
        checksum == compute_checksum(SubSeq(packet, 3, Len(packet)))
    IN <<Append(packet, checksum)>>

(* A request whose length byte counts one byte more. *)
sync_read_packet_longer(ids, addr, data_len) ==
    LET length == (Len(ids) + 5) % 256
        packet == HEADER \o <<BROADCAST_ID, length, INST_SYNC_READ, addr, data_len>>
                         \o ids
        checksum == compute_checksum(SubSeq(packet, 3, Len(packet)))
    IN Append(packet, checksum)

(* sync_read's request packet. *)
sync_read_packet(ids, addr, data_len) ==
    LET length == (Len(ids) + 4) % 256
        packet == HEADER \o <<BROADCAST_ID, length, INST_SYNC_READ, addr, data_len>>
                         \o ids
        checksum == compute_checksum(SubSeq(packet, 3, Len(packet)))
    IN Append(packet, checksum)

----------------------------------------------------------------------------
(* The servos.  A servo acts on a frame with the header, a length byte that
   matches and a checksum that verifies; a write sets the addressed
   register, a group write sets it on every servo the frame lists. *)

RegAddrs == {ADDR_TORQUE_ENABLE, ADDR_P_GAIN, ADDR_D_GAIN, ADDR_GOAL_POSITION}

FrameAccepted(f) ==
    /\ Len(f) >= 6
    /\ SubSeq(f, 1, 2) = HEADER
    /\ f[4] = Len(f) - 4
    /\ SumBytes(SubSeq(f, 3, Len(f))) % 256 = 255

(* Whether frame f, acted on, sets register addr of servo id. *)
FrameSets(f, id, addr) ==
    \/ f[5] = INST_WRITE /\ f[3] = id /\ f[6] = addr
    \/ /\ f[5] = INST_SYNC_WRITE /\ f[3] = BROADCAST_ID /\ f[6] = addr
       /\ \E k \in 0..(((Len(f) - 8) \div 3) - 1) : f[8 + 3 * k] = id

MaxOf(S) == CHOOSE k \in S : \A j \in S : j <= k

(* The value it sets there (a group write: the last entry listing id). *)
FrameValue(f, id) ==
    IF f[5] = INST_WRITE THEN f[7]
    ELSE LET k == MaxOf({k \in 0..(((Len(f) - 8) \div 3) - 1) : f[8 + 3 * k] = id})
         IN read_i16_le(<<f[9 + 3 * k], f[10 + 3 * k]>>)

(* The registers after the servos have seen frames, in order: each register
   holds what the last frame setting it wrote. *)
DevAfterFrames(d, frames) ==
    LET acted == [k \in 1..Len(frames) |-> FrameAccepted(frames[k])]
    IN [id \in IdSet |-> [a \in RegAddrs |->
           LET ks == {k \in 1..Len(frames) : acted[k] /\ FrameSets(frames[k], id, a)}
           IN IF ks = {} THEN d[id][a] ELSE FrameValue(frames[MaxOf(ks)], id)]]

----------------------------------------------------------------------------
(* MotorController.  An operation runs on a record st:
     kps, kds  the fields,
     out       the frames written so far,
     budget    how many more port writes succeed before one fails,
     err       whether a `?` has returned Err (the rest is then skipped). *)

Call(budget) ==
    [kps |-> kps, kds |-> kds, out |-> <<>>, budget |-> budget, err |-> FALSE]

(* port.write_all(&packet) then flush, for each packet in turn. *)
RECURSIVE port_write(_, _)
port_write(st, packets) ==
    IF st.err \/ packets = <<>> THEN st
    ELSE IF st.budget = 0 THEN [st EXCEPT !.err = TRUE]
    ELSE port_write([st EXCEPT !.out = Append(@, Head(packets)), !.budget = @ - 1],
                    Tail(packets))

write_register(st, id, addr, data) ==
    port_write(st, <<write_register_packet(id, addr, data)>>)

sync_write_positions(st, ids, values) ==
    port_write(st, sync_write_packets(ids, values))

(* `x as u8` of a non-negative whole f64: saturating. *)
AsU8(x) == Clamp(x, 0, 255)

(* for (i, id) in ids.iter().enumerate() { write_register(id, addr, [vals[i] as u8])? } *)
RECURSIVE write_each(_, _, _, _)
write_each(st, addr, vals, i) ==
    IF st.err \/ i > Len(JOINT_IDS) THEN st
    ELSE write_each(write_register(st, JOINT_IDS[i], addr, <<AsU8(vals[i])>>),
                    addr, vals, i + 1)

set_kps(st, k) ==
    IF st.err THEN st
    ELSE write_each([st EXCEPT !.kps = k], ADDR_P_GAIN, k, 1)

set_kds(st, k) ==
    IF st.err THEN st
    ELSE write_each([st EXCEPT !.kds = k], ADDR_D_GAIN, k, 1)

init_positions_array == default_init_positions

(* set_position_all_array: positions is a sequence, joint i at index i. *)
set_position_all_array(st, positions) ==
    IF st.err THEN st
    ELSE LET ids == [i \in 1..Len(positions) |-> JOINT_IDS[i]]
             raw_positions ==
                 [i \in 1..Len(positions) |-> rad_to_raw(positions[i] + offsets[i])]
         IN sync_write_positions(st, ids, raw_positions)


(* set_position_all: positions maps the joints it names (a subset of Joints,
   by index) to angles; the joints are taken in joint_names order. *)
set_position_all(st, positions) ==
    IF st.err THEN st
    ELSE LET named == SelectSeq([i \in Joints |-> i],
                                LAMBDA i : i \in DOMAIN positions)
             ids == [k \in 1..Len(named) |-> JOINT_IDS[named[k]]]
             raw_positions ==
                 [k \in 1..Len(named) |->
                     rad_to_raw(positions[named[k]] + offsets[named[k]])]
         IN sync_write_positions(st, ids, raw_positions)

(* turn_on without the move to the init positions. *)
turn_on_no_move(st) ==
    LET s1 == write_each(st, ADDR_TORQUE_ENABLE, [i \in Joints |-> 1], 1)
        low_kps == [i \in Joints |-> 2]
        s2 == set_kps(s1, low_kps)
        full_kps == s2.kps
    IN set_kps(s2, full_kps)

(* turn_on: torque on, low gains, init positions, "restore full KPs". *)
turn_on(st) ==
    LET s1 == write_each(st, ADDR_TORQUE_ENABLE, [i \in Joints |-> 1], 1)
        low_kps == [i \in Joints |-> 2]
        s2 == set_kps(s1, low_kps)
        s3 == set_position_all_array(s2, init_positions_array)
        full_kps == s3.kps
    IN set_kps(s3, full_kps)

(* The parse loop of sync_read with an off-by-one in the short-read test. *)
RECURSIVE parse_responses_ge(_, _, _, _, _, _)
parse_responses_ge(buf, bytes_read, data_len, n, cursor, values) ==
    IF n = 0 THEN values
    ELSE IF cursor + 6 + data_len >= bytes_read
    THEN parse_responses_ge(buf, bytes_read, data_len, n - 1, cursor,
                            Append(values, 0))
    ELSE LET c == cursor + 5
             val == read_i16_le(SubSeq(buf, c + 1, c + data_len))
         IN parse_responses_ge(buf, bytes_read, data_len, n - 1,
                               c + data_len + 1, Append(values, val))

(* The parse loop of sync_read leaving the loop at a short read. *)
RECURSIVE parse_responses_break(_, _, _, _, _, _)
parse_responses_break(buf, bytes_read, data_len, n, cursor, values) ==
    IF n = 0 THEN values
    ELSE IF cursor + 6 + data_len > bytes_read
    THEN values
    ELSE LET c == cursor + 5
             val == read_i16_le(SubSeq(buf, c + 1, c + data_len))
         IN parse_responses_break(buf, bytes_read, data_len, n - 1,
                                  c + data_len + 1, Append(values, val))

(* The parse loop of sync_read, motors.rs:346-363: n devices left, cursor
   (0-based) into buf. *)
RECURSIVE parse_responses(_, _, _, _, _, _)
parse_responses(buf, bytes_read, data_len, n, cursor, values) ==
    IF n = 0 THEN values
    ELSE IF cursor + 6 + data_len > bytes_read
    THEN parse_responses(buf, bytes_read, data_len, n - 1, cursor,
                         Append(values, 0))
    ELSE LET c == cursor + 5
             val == read_i16_le(SubSeq(buf, c + 1, c + data_len))
         IN parse_responses(buf, bytes_read, data_len, n - 1,
                            c + data_len + 1, Append(values, val))

Min(a, b) == IF a < b THEN a ELSE b

(* sync_read: avail is what the port holds when port.read is called (empty
   on a timeout).  The result: st, and ok / values for Ok(values). *)
sync_read(st, ids, addr, data_len, avail) ==
    LET s1 == port_write(st, <<sync_read_packet(ids, addr, data_len)>>)
        response_size == (6 + data_len) * Len(ids)
        bytes_read == Min(Len(avail), response_size)
        buf == [i \in 1..response_size |-> IF i <= bytes_read THEN avail[i] ELSE 0]
    IN IF s1.err THEN [st |-> s1, ok |-> FALSE, values |-> <<>>]
       ELSE IF bytes_read = 0
       THEN [st |-> [s1 EXCEPT !.err = TRUE], ok |-> FALSE, values |-> <<>>]
       ELSE [st |-> s1, ok |-> TRUE,
             values |-> parse_responses(buf, bytes_read, data_len, Len(ids), 0, <<>>)]

(* get_present_positions that gives None when fewer bytes than all the
   servos' replies were read. *)
get_present_positions_strict(st, avail) ==
    LET r == sync_read(st, JOINT_IDS, ADDR_PRESENT_POSITION, 2, avail)
    IN [st |-> r.st,
        result |-> IF r.ok /\ Len(avail) >= (6 + 2) * Len(JOINT_IDS)
                   THEN <<[i \in 1..Len(r.values) |->
                              raw_to_rad(r.values[i]) - offsets[i]]>>
                   ELSE <<>>]

(* get_present_positions: <<>> is None, <<positions>> is Some(positions). *)
get_present_positions(st, avail) ==
    LET r == sync_read(st, JOINT_IDS, ADDR_PRESENT_POSITION, 2, avail)
    IN [st |-> r.st,
        result |-> IF r.ok
                   THEN <<[i \in 1..Len(r.values) |->
                              raw_to_rad(r.values[i]) - offsets[i]]>>
                   ELSE <<>>]

get_present_velocities(st, avail) ==
    LET r == sync_read(st, JOINT_IDS, ADDR_PRESENT_SPEED, 2, avail)
    IN [st |-> r.st,
        result |-> IF r.ok
                   THEN <<[i \in 1..Len(r.values) |-> raw_to_rad_per_sec(r.values[i])]>>
                   ELSE <<>>]

----------------------------------------------------------------------------
(* What the servos answer to a group read.  Each servo in the request, in
   the request's order, replies [0xFF, 0xFF, id, len, err, data.., checksum]
   (motors.rs:333).  A reply r is described by
     base  the registers read: servo i holds PresentRaw(base, i),
     kind  "none", or one servo's reply is "absent" or has a bad checksum,
     at    that servo's joint index,
     n     how many bytes have arrived when port.read is called. *)

PresentRaw(base, i) == base + 37 * i

DeviceReply(id, raw, corrupt) ==
    LET body == <<id, 4, 0>> \o write_i16_le(raw)
        sum == 255 - (SumBytes(body) % 256)
    IN HEADER \o body \o <<IF corrupt THEN (sum + 1) % 256 ELSE sum>>

RECURSIVE RepliesFrom(_, _)
RepliesFrom(r, i) ==
    IF i > NUM_DOFS THEN <<>>
    ELSE (IF r.kind = "absent" /\ r.at = i THEN <<>>
          ELSE DeviceReply(JOINT_IDS[i], PresentRaw(r.base, i),
                           r.kind = "badsum" /\ r.at = i))
         \o RepliesFrom(r, i + 1)

Stream(r) == RepliesFrom(r, 1)

Received(r) == SubSeq(Stream(r), 1, r.n)

----------------------------------------------------------------------------
(* main, as far as it drives the bus: MotorController::new, set_kps,
   set_kds, turn_on, then per tick get_present_positions,
   get_present_velocities, (inference,) set_position_all. *)

ZeroOffsets == [i \in Joints |-> 0]

(* The command line's gains and the configuration's joints_offset. *)
Configs ==
    { [kp |-> 30,  kd |-> 0, off |-> ZeroOffsets],
      [kp |-> 300, kd |-> 5, off |-> [i \in Joints |-> 250 * i - 1000]] }

(* The registers the servos hold when a group read samples them. *)
RawBases == {-500, 1000}

NoResp == [base |-> 0, kind |-> "none", at |-> 1, n |-> 0]

(* Every truncation of the complete answer, and the answers with one
   servo's reply absent or corrupted, complete or cut inside the last reply. *)
Responses ==
    [base : RawBases, kind : {"none"}, at : {1}, n : 0..((6 + 2) * NUM_DOFS)]
    \cup
    [base : RawBases, kind : {"absent"}, at : Joints,
     n : {(6 + 2) * (NUM_DOFS - 1) - 3, (6 + 2) * (NUM_DOFS - 1)}]
    \cup
    [base : RawBases, kind : {"badsum"}, at : Joints,
     n : {(6 + 2) * NUM_DOFS - 3, (6 + 2) * NUM_DOFS}]

(* The policy's action decides the targets: as many as the action has
   entries (at most NUM_DOFS), each init + action * scale. *)
TargetLens == {0, NUM_DOFS - 1, NUM_DOFS}

TargetDeltas == {12345, -400000, 400000}

Targets(m, d) == [i \in 1..m |-> init_positions_array[i] + d * i]

InitBus ==
    /\ pc = "new"
    /\ \E c \in Configs :
        /\ args = [kp |-> c.kp, kd |-> c.kd]
        /\ offsets = c.off
    /\ kps = <<>>
    /\ kds = <<>>
    /\ dev = [id \in IdSet |-> [a \in RegAddrs |-> -1]]
    /\ wire = <<>>
    /\ lastOp = "none"
    /\ lastOk = TRUE
    /\ lastArg = <<>>
    /\ resp = NoResp
    /\ readResult = <<>>

(* What an operation leaves behind: the fields, the frames on the wire and
   the registers the servos set from them. *)
Commit(st, op, arg) ==
    /\ kps' = st.kps
    /\ kds' = st.kds
    /\ wire' = st.out
    /\ dev' = DevAfterFrames(dev, st.out)
    /\ lastOp' = op
    /\ lastOk' = ~st.err
    /\ lastArg' = arg

(* MotorController::new: the port opens or main returns the error. *)
MotorControllerNew ==
    /\ pc = "new"
    /\ \E opened \in BOOLEAN :
        /\ pc' = IF opened THEN "set_kps" ELSE "aborted"
        /\ kps' = IF opened THEN [i \in Joints |-> 32] ELSE kps
        /\ kds' = IF opened THEN [i \in Joints |-> 0] ELSE kds
        /\ lastOp' = "new"
        /\ lastOk' = opened
    /\ UNCHANGED <<inputVars, checksumVars, restVars, args, offsets, dev, wire, lastArg, resp, readResult, moreVars>>

(* main.rs:131-137 *)
MainKps == [i \in Joints |-> IF i \in 6..9 THEN 8 ELSE args.kp]

MainKds == [i \in Joints |-> args.kd]

MainSetKps ==
    /\ pc = "set_kps"
    /\ \E budget \in 0..NUM_DOFS :
        LET st == set_kps(Call(budget), MainKps)
        IN /\ Commit(st, "set_kps", MainKps)
           /\ pc' = IF st.err THEN "aborted" ELSE "set_kds"
    /\ UNCHANGED <<inputVars, checksumVars, restVars, args, offsets, resp, readResult, moreVars>>

MainSetKds ==
    /\ pc = "set_kds"
    /\ \E budget \in 0..NUM_DOFS :
        LET st == set_kds(Call(budget), MainKds)
        IN /\ Commit(st, "set_kds", MainKds)
           /\ pc' = IF st.err THEN "aborted" ELSE "turn_on"
    /\ UNCHANGED <<inputVars, checksumVars, restVars, args, offsets, resp, readResult, moreVars>>

MainTurnOn ==
    /\ pc = "turn_on"
    /\ \E budget \in 0..(3 * NUM_DOFS + 1) :
        LET st == turn_on(Call(budget))
        IN /\ Commit(st, "turn_on", <<>>)
           /\ pc' = IF st.err THEN "aborted" ELSE "tick"
    /\ UNCHANGED <<inputVars, checksumVars, restVars, args, offsets, resp, readResult, moreVars>>

(* The reply to a request that was written; none to one that was not. *)
RepliesTo(budget) == IF budget = 0 THEN {NoResp} ELSE Responses

(* main.rs:223-283: a tick that is not paused starts; what the previous
   tick's calls left in the bookkeeping variables is no longer looked at. *)
TickStart ==
    /\ pc = "tick"
    /\ pc' = "read_pos"
    /\ wire' = <<>>
    /\ lastOp' = "none"
    /\ lastOk' = TRUE
    /\ lastArg' = <<>>
    /\ UNCHANGED <<inputVars, checksumVars, restVars, args, offsets, kps, kds, dev, resp, readResult, moreVars>>

GetPresentPositions ==
    /\ pc = "read_pos"
    /\ \E budget \in 0..1 : \E r \in RepliesTo(budget) :
        LET got == get_present_positions(Call(budget), Received(r))
        IN /\ Commit(got.st, "get_present_positions", <<>>)
           /\ resp' = r
           /\ readResult' = got.result
    /\ pc' = "pos_done"
    /\ UNCHANGED <<inputVars, checksumVars, restVars, args, offsets, moreVars>>

(* main.rs:285-288: Some(pos) if pos.len() == NUM_DOFS => pos, _ => continue *)
MatchPositions ==
    /\ pc = "pos_done"
    /\ pc' = IF readResult # <<>> /\ Len(readResult[1]) = NUM_DOFS
             THEN "read_vel" ELSE "tick"
    /\ resp' = NoResp
    /\ readResult' = <<>>
    /\ UNCHANGED <<inputVars, checksumVars, restVars, args, offsets, kps, kds, dev, wire, lastOp, lastOk, lastArg, moreVars>>

GetPresentVelocities ==
    /\ pc = "read_vel"
    /\ \E budget \in 0..1 : \E r \in RepliesTo(budget) :
        LET got == get_present_velocities(Call(budget), Received(r))
        IN /\ Commit(got.st, "get_present_velocities", <<>>)
           /\ resp' = r
           /\ readResult' = got.result
    /\ pc' = "vel_done"
    /\ UNCHANGED <<inputVars, checksumVars, restVars, args, offsets, moreVars>>

(* main.rs:290-293 *)
MatchVelocities ==
    /\ pc = "vel_done"
    /\ pc' = IF readResult # <<>> /\ Len(readResult[1]) = NUM_DOFS
             THEN "write" ELSE "tick"
    /\ resp' = NoResp
    /\ readResult' = <<>>
    /\ UNCHANGED <<inputVars, checksumVars, restVars, args, offsets, kps, kds, dev, wire, lastOp, lastOk, lastArg, moreVars>>

(* main.rs:343-349: the inference call fails and the tick is skipped. *)
InferenceFails ==
    /\ pc = "write"
    /\ pc' = "tick"
    /\ UNCHANGED <<inputVars, checksumVars, restVars, args, offsets, kps, kds, dev, wire, lastOp, lastOk, lastArg,
                   resp, readResult, moreVars>>

(* main.rs:384-387: make_action_dict, then set_position_all; an error is
   logged and the loop goes on. *)
SetPositionAll ==
    /\ pc = "write"
    /\ \E m \in TargetLens, d \in TargetDeltas, budget \in 0..1 :
        LET st == set_position_all(Call(budget), Targets(m, d))
        IN Commit(st, "set_position_all", Targets(m, d))
    /\ pc' = "tick"
    /\ UNCHANGED <<inputVars, checksumVars, restVars, args, offsets, resp, readResult, moreVars>>

----------------------------------------------------------------------------
(* The gamepad: controller.rs. Times are in milliseconds. *)

(* ButtonState::TIMEOUT, 0.2 s *)
TIMEOUT == 200

(* main.rs:171: XBoxController::new(20) *)
command_freq == 20

(* XBoxController::new: period = 1 / command_freq *)
period == 1000 \div command_freq

(* Sampling ticks modelled. *)
MaxTicks == 5

(* toggles[t] counts up to here. *)
ActCap == 2

(* Time from one button update to the next: the period, or a late tick. *)
TickDurations == {period, 5 * period}

(* ButtonState::new *)
ButtonStateNew ==
    [is_pressed |-> FALSE, triggered |-> FALSE, released |-> TRUE,
     last_pressed_time |-> 0]

(* ButtonState::update without the debounce interval. *)
update_no_debounce(self, value, t) ==
    LET released1 == IF self.is_pressed /\ ~value THEN TRUE ELSE self.released
        fires == released1 /\ value
    IN [is_pressed |-> value,
        triggered |-> fires,
        released |-> IF value THEN FALSE ELSE released1,
        last_pressed_time |-> IF fires THEN t ELSE self.last_pressed_time]

(* update with the released test left out: a held button fires again. *)
update_no_release(self, value, t) ==
    LET released1 == IF self.is_pressed /\ ~value THEN TRUE ELSE self.released
        fires == value /\ (t - self.last_pressed_time > TIMEOUT)
    IN [is_pressed |-> value,
        triggered |-> fires,
        released |-> IF value THEN FALSE ELSE released1,
        last_pressed_time |-> IF fires THEN t ELSE self.last_pressed_time]

(* update in which a press that does not trigger leaves released set. *)
update_keep_released(self, value, t) ==
    LET released1 == IF self.is_pressed /\ ~value THEN TRUE ELSE self.released
        fires == released1 /\ value /\ (t - self.last_pressed_time > TIMEOUT)
    IN [is_pressed |-> value,
        triggered |-> fires,
        released |-> IF fires THEN FALSE ELSE released1,
        last_pressed_time |-> IF fires THEN t ELSE self.last_pressed_time]

(* ButtonState::update *)
update(self, value, t) ==
    LET released1 == IF self.is_pressed /\ ~value THEN TRUE ELSE self.released
        fires == released1 /\ value /\ (t - self.last_pressed_time > TIMEOUT)
    IN [is_pressed |-> value,
        triggered |-> fires,
        released |-> IF value THEN FALSE ELSE released1,
        last_pressed_time |-> IF fires THEN t ELSE self.last_pressed_time]

(* The stop signal of the producer threads (controller.rs:140-150,
   imu.rs:111-131), with the history of its calls and receipts. *)

(* stop() calls modelled on one handle, its destruction not counted. *)
MaxStops == 1

(* The producer threads. *)
Producers == {"xbox", "imu"}

NoStops == [p \in Producers |-> [calls |-> 0, live |-> FALSE, recv |-> 0]]

(* A channel without capacity limit: every try_send queues. *)
try_send_unbounded(ch, v) == Append(ch, v)

(* try_send on a bounded(1) channel whose receiver lives: Ok or Full. *)
try_send(ch, v) == IF Len(ch) < 1 THEN <<v>> ELSE ch

(* A thread that never finds the stop signal. *)
stop_never_taken(ch) == FALSE

(* stop_rx.try_recv().is_ok() at the top of a thread's loop *)
stop_taken(ch) == ch # <<>>

(* controller_worker is between its spawn and its return. *)
WorkerRuns == worker \in {"init", "top", "sample"}

(* The history after a stop() call on p's handle. *)
stop_called(p, runs) ==
    [stops EXCEPT ![p] = [@ EXCEPT !.calls = @ + 1,
                                   !.live = @ \/ runs]]

(* The history after p's thread took the stop signal. *)
stop_received(p) ==
    [stops EXCEPT ![p] = [@ EXCEPT !.recv = @ + 1]]

(* ControllerOutput, its buttons.a; sample is the sampling tick that built it
   (0: ControllerOutput::default). *)
ControllerOutput(a, n) == [buttons_a |-> a, sample |-> n]

ControllerOutputDefault == ControllerOutput(ButtonStateNew, 0)

NoToggles == [t \in 1..MaxTicks |-> 0]

InputIdle ==
    /\ xbox = "unset"
    /\ worker = "unspawned"
    /\ a_pressed = FALSE
    /\ buttons_a = ButtonStateNew
    /\ now = 0
    /\ tick = 0
    /\ data_ch = <<>>
    /\ stop_ch = <<>>
    /\ last_output = ControllerOutputDefault
    /\ paused = FALSE
    /\ computed = {}
    /\ returned = {}
    /\ toggles = NoToggles

(* main.rs:170-174, 214: main reaches the optional gamepad; paused starts as
   duck_config.start_paused. *)
InitInput ==
    /\ xbox = "unset"
    /\ worker = "unspawned"
    /\ a_pressed = FALSE
    /\ buttons_a = ButtonStateNew
    /\ now = 0
    /\ tick = 0
    /\ data_ch = <<>>
    /\ stop_ch = <<>>
    /\ last_output = ControllerOutputDefault
    /\ paused \in BOOLEAN
    /\ computed = {}
    /\ returned = {}
    /\ toggles = NoToggles

(* main.rs:170-174: Some(XBoxController::new(20)) if args.commands; new
   spawns the worker. *)
XBoxControllerNew ==
    /\ xbox = "unset"
    /\ \E commands \in BOOLEAN :
        /\ xbox' = IF commands THEN "some" ELSE "none"
        /\ worker' = IF commands THEN "init" ELSE worker
    /\ data_ch' = <<>>
    /\ stop_ch' = <<>>
    /\ last_output' = ControllerOutputDefault
    /\ UNCHANGED <<a_pressed, buttons_a, now, tick, paused, computed, returned,
                   toggles, busVars, checksumVars, restVars, moreVars>>

(* controller_worker, before its loop: Gilrs::new fails and the thread
   returns, or the button state is set up. *)
WorkerInit ==
    /\ worker = "init"
    /\ \E gilrs_ok \in BOOLEAN :
        worker' = IF gilrs_ok THEN "top" ELSE "exited"
    /\ a_pressed' = FALSE
    /\ buttons_a' = ButtonStateNew
    /\ UNCHANGED <<xbox, now, tick, data_ch, stop_ch, last_output, paused,
                   computed, returned, toggles, busVars, checksumVars, restVars, moreVars>>

(* controller_worker, top of the loop: stop_rx.try_recv().is_ok() => break *)
WorkerCheckStop ==
    /\ worker = "top"
    /\ tick < MaxTicks \/ stop_taken(stop_ch)
    /\ IF stop_taken(stop_ch)
       THEN /\ stop_ch' = <<>>
            /\ worker' = "exited"
            /\ stops' = stop_received("xbox")
       ELSE /\ stop_ch' = stop_ch
            /\ worker' = "sample"
            /\ stops' = stops
    /\ UNCHANGED <<xbox, a_pressed, buttons_a, now, tick, data_ch, last_output,
                   paused, computed, returned, toggles, busVars, checksumVars,
                   restVars, imuVars,
                   otherVars>>

(* controller_worker, the rest of the iteration: the pending events leave
   a_pressed at some value, buttons.a.update(a_pressed, now), then
   data_tx.try_send(output): Ok, Full (the output is skipped) or
   Disconnected (break); then the sleep to the period. *)
WorkerSample ==
    /\ worker = "sample"
    /\ \E value \in BOOLEAN, dt \in TickDurations :
        LET t == IF tick = 0 THEN 0 ELSE now + dt
            a == update(buttons_a, value, t)
            output == ControllerOutput(a, tick + 1)
        IN /\ a_pressed' = value
           /\ buttons_a' = a
           /\ now' = t
           /\ tick' = tick + 1
           /\ computed' = IF a.triggered THEN computed \cup {tick + 1}
                          ELSE computed
           /\ IF xbox = "dropped"
              THEN /\ data_ch' = data_ch
                   /\ worker' = "exited"
              ELSE /\ data_ch' = IF Len(data_ch) < 1 THEN <<output>>
                                 ELSE data_ch
                   /\ worker' = "top"
    /\ UNCHANGED <<xbox, stop_ch, last_output, paused, returned, toggles,
                   busVars, checksumVars, restVars, moreVars>>

(* XBoxController::get_last_command: the result is the new last_output. *)
get_last_command ==
    IF data_ch # <<>> THEN Head(data_ch) ELSE last_output

(* main.rs:226-239, one control-loop iteration's gamepad input:
   output = controller.get_last_command(); a.triggered toggles paused. *)
MainGamepadInput ==
    /\ xbox = "some"
    /\ LET output == get_last_command
       IN /\ last_output' = output
          /\ data_ch' = <<>>
          /\ returned' = returned \cup {output.sample}
          /\ IF output.buttons_a.triggered
             THEN /\ paused' = ~paused
                  /\ toggles' =
                       [toggles EXCEPT ![output.sample] =
                           IF @ < ActCap THEN @ + 1 ELSE @]
             ELSE UNCHANGED <<paused, toggles>>
    /\ UNCHANGED <<xbox, worker, a_pressed, buttons_a, now, tick, stop_ch,
                   computed, busVars, checksumVars, restVars, moreVars>>

(* Drop for XBoxController (main returns): stop(), a try_send on the stop
   channel; the receiver of the data channel goes with it. *)
XBoxControllerDrop ==
    /\ xbox = "some"
    /\ xbox' = "dropped"
    /\ stop_ch' = IF worker = "exited" THEN stop_ch
                  ELSE try_send(stop_ch, "stop")
    /\ stops' = stop_called("xbox", WorkerRuns)
    /\ UNCHANGED <<worker, a_pressed, buttons_a, now, tick, data_ch,
                   last_output, paused, computed, returned, toggles, busVars,
                   checksumVars, restVars, imuVars,
                   otherVars>>

(* XBoxController::stop: let _ = self.stop_tx.try_send(()); Disconnected
   when the worker has returned. *)
XBoxControllerStop ==
    /\ xbox = "some"
    /\ stops["xbox"].calls < MaxStops
    /\ stop_ch' = IF worker = "exited" THEN stop_ch
                  ELSE try_send(stop_ch, "stop")
    /\ stops' = stop_called("xbox", WorkerRuns)
    /\ UNCHANGED <<xbox, worker, a_pressed, buttons_a, now, tick, data_ch,
                   last_output, paused, computed, returned, toggles, busVars,
                   checksumVars, restVars, imuVars,
                   otherVars>>

----------------------------------------------------------------------------
(* A frame's checksum, as written and as a receiver recomputes it. *)

(* Bytes after the header modelled in a frame. *)
MaxPayloadLen == 3

PayloadBytes == {0, 128, 255}

Payloads == UNION {[1..n -> PayloadBytes] : n \in 1..MaxPayloadLen}

ChecksumIdle ==
    /\ ck_pc = "idle"
    /\ payload = <<>>
    /\ frame = <<>>
    /\ received = <<>>

InitChecksum ==
    /\ ck_pc = "payload"
    /\ payload \in Payloads
    /\ frame = <<>>
    /\ received = <<>>

(* write_register, sync_write_positions, sync_read: the packet is the header
   and the payload, then compute_checksum(&packet[2..]) is pushed. *)
EncodeFrame ==
    /\ ck_pc = "payload"
    /\ LET packet == HEADER \o payload
       IN frame' = packet \o
                     <<compute_checksum(SubSeq(packet, 3, Len(packet)))>>
    /\ received' = frame'
    /\ ck_pc' = "encoded"
    /\ UNCHANGED <<payload, busVars, inputVars, restVars, moreVars>>

(* The line changes one payload byte to a different value. *)
ChangeByte ==
    /\ ck_pc = "encoded"
    /\ \E k \in 3..(Len(frame) - 1), v \in 0..255 :
        /\ v # frame[k]
        /\ received' = [frame EXCEPT ![k] = v]
    /\ ck_pc' = "changed"
    /\ UNCHANGED <<payload, frame, busVars, inputVars, restVars, moreVars>>

----------------------------------------------------------------------------
(* The gait phase: reference_motion.rs.  A step index, a frequency factor and
   an offset are whole numbers of 1/StepUnits of a step (0.05). *)

StepUnits == 20

(* load_period_from_pickle: Ok(25) *)
nb_steps_in_period == 25

(* nb_steps_in_period as f64, in units *)
Period == nb_steps_in_period * StepUnits

(* adjust_offset calls modelled. *)
MaxAdjust == 2

(* The longest run of advances counted. *)
RunCap == 25

(* duck_config.phase_frequency_factor_offset *)
ConfigOffsets == {0, -21}

(* The deltas of adjust_offset: main's 0.05 and -0.05, and larger ones. *)
Deltas == {1, -1, 21, -21}

(* f64 `%`: the remainder has the sign of the dividend. *)
fmod(x, m) == IF x >= 0 THEN x % m ELSE -((-x) % m)

(* PhaseTracker::new *)
PhaseTrackerNew(offset) ==
    [step_index |-> 0, frequency_factor |-> StepUnits,
     frequency_factor_offset |-> offset]

(* The per-tick increment of step. *)
Increment(self) == self.frequency_factor + self.frequency_factor_offset

(* PhaseTracker::step, the tracker after it *)
step(self) ==
    [self EXCEPT !.step_index = fmod(self.step_index + Increment(self), Period)]

(* The [cos(phase), sin(phase)] step returns, phase = step_index /
   nb_steps_in_period * 2 pi: the angle within one turn, in units. *)
phase_signal(self) == self.step_index % Period

set_sprint_restart(self, sprint) ==
    [self EXCEPT !.step_index = 0,
                 !.frequency_factor =
                    IF sprint THEN (13 * StepUnits) \div 10 ELSE StepUnits]

(* PhaseTracker::set_sprint: 1.3 or 1.0 *)
set_sprint(self, sprint) ==
    [self EXCEPT !.frequency_factor =
        IF sprint THEN (13 * StepUnits) \div 10 ELSE StepUnits]

(* PhaseTracker::adjust_offset *)
adjust_offset(self, delta) ==
    [self EXCEPT !.frequency_factor_offset = @ + delta]

(* The record of a call on the tracker. *)
PhaseCall(op, sprint, delta, before) ==
    [op |-> op, sprint |-> sprint, delta |-> delta, before |-> before]

PhaseIdle ==
    /\ phase_tracker = PhaseTrackerNew(0)
    /\ phase_call = PhaseCall("new", FALSE, 0, PhaseTrackerNew(0))
    /\ offset_given = 0
    /\ adjusts = 0
    /\ run_start = 0
    /\ run_len = 0

(* main.rs:158-162 *)
InitPhase ==
    /\ \E offset \in ConfigOffsets :
        /\ phase_tracker = PhaseTrackerNew(offset)
        /\ phase_call = PhaseCall("new", FALSE, 0, PhaseTrackerNew(offset))
        /\ offset_given = offset
    /\ adjusts = 0
    /\ run_start = 0
    /\ run_len = 0

(* The advances of a run are counted when the increment divides the period
   into at most RunCap advances. *)
RunCounted(self) ==
    /\ Increment(self) > 0
    /\ Period % Increment(self) = 0
    /\ Period \div Increment(self) <= RunCap

(* phase_tracker.step(); a run of advances starts at the first advance after
   a set_sprint or adjust_offset call, and after a run that is complete. *)
PhaseStep ==
    /\ phase_tracker' = step(phase_tracker)
    /\ phase_call' = PhaseCall("step", FALSE, 0, phase_tracker)
    /\ IF ~RunCounted(phase_tracker)
       THEN /\ run_start' = 0
            /\ run_len' = 0
       ELSE IF run_len = 0 \/ run_len >= Period \div Increment(phase_tracker)
       THEN /\ run_start' = phase_tracker.step_index
            /\ run_len' = 1
       ELSE /\ run_start' = run_start
            /\ run_len' = run_len + 1
    /\ UNCHANGED <<offset_given, adjusts, busVars, inputVars, checksumVars, buttonVars,
                   loopVars, moreVars>>

(* phase_tracker.set_sprint(b); the run counted ends. *)
PhaseSetSprint ==
    /\ \E b \in BOOLEAN :
        /\ phase_tracker' = set_sprint(phase_tracker, b)
        /\ phase_call' = PhaseCall("set_sprint", b, 0, phase_tracker)
    /\ run_start' = 0
    /\ run_len' = 0
    /\ UNCHANGED <<offset_given, adjusts, busVars, inputVars, checksumVars, buttonVars,
                   loopVars, moreVars>>

(* phase_tracker.adjust_offset(delta); the run counted ends. *)
PhaseAdjustOffset ==
    /\ adjusts < MaxAdjust
    /\ \E delta \in Deltas :
        /\ phase_tracker' = adjust_offset(phase_tracker, delta)
        /\ phase_call' = PhaseCall("adjust_offset", FALSE, delta, phase_tracker)
        /\ offset_given' = offset_given + delta
    /\ adjusts' = adjusts + 1
    /\ run_start' = 0
    /\ run_len' = 0
    /\ UNCHANGED <<busVars, inputVars, checksumVars, buttonVars, loopVars, moreVars>>

----------------------------------------------------------------------------
(* One button of the input thread, update after update, with the times of
   its presses and triggers: controller.rs:319-321. *)

ButtonIdle ==
    /\ presses = <<>>
    /\ triggers = <<>>

(* controller_worker in its loop, buttons = Buttons::new(). *)
InitButton ==
    /\ xbox = "some"
    /\ worker = "sample"
    /\ a_pressed = FALSE
    /\ buttons_a = ButtonStateNew
    /\ now = 0
    /\ tick = 0
    /\ data_ch = <<>>
    /\ stop_ch = <<>>
    /\ last_output = ControllerOutputDefault
    /\ paused = FALSE
    /\ computed = {}
    /\ returned = {}
    /\ toggles = NoToggles
    /\ presses = <<>>
    /\ triggers = <<>>

(* One iteration's events and buttons.a.update(a_pressed, now): the first
   one right after start_time is taken, each later one a tick duration
   after the one before. *)
ButtonUpdate ==
    /\ tick < MaxTicks
    /\ \E value \in BOOLEAN, dt \in TickDurations :
        LET t == IF tick = 0 THEN 0 ELSE now + dt
            a == update(buttons_a, value, t)
        IN /\ a_pressed' = value
           /\ buttons_a' = a
           /\ now' = t
           /\ tick' = tick + 1
           /\ presses' = IF value /\ ~buttons_a.is_pressed
                         THEN Append(presses, t) ELSE presses
           /\ triggers' = IF a.triggered THEN Append(triggers, t) ELSE triggers
    /\ UNCHANGED <<xbox, worker, data_ch, stop_ch, last_output, paused,
                   computed, returned, toggles, busVars, checksumVars,
                   phaseVars, loopVars, moreVars>>

----------------------------------------------------------------------------
(* The LowPassActionFilter: rl_utils.rs:102-139.  A value is an integer
   number of thousandths; alpha is kept as the fraction it is,
   (1 / cutoff) / (1 / control + 1 / cutoff) = control / (control + cutoff),
   and a product's quotient is cut to a whole thousandth. *)

(* Thousandths in 1.0. *)
LowPassUnit == 1000

(* The frequencies of test_low_pass_filter_converges. *)
control_freq == 50

cutoff_frequency == 30

(* The ticks after which the output is compared with the target. *)
ConvergeTicks == 200

(* Ticks modelled. *)
MaxLowPassTicks == 205

(* The target pushed, [1.0, 2.0, 3.0]. *)
LowPassTarget == <<LowPassUnit, 2 * LowPassUnit, 3 * LowPassUnit>>

(* What a filter already in use was first given. *)
StartVectors ==
    { <<0, 0, 0>>,
      <<-5 * LowPassUnit, 2 * LowPassUnit, 90 * LowPassUnit>>,
      <<3 * LowPassUnit, -LowPassUnit, LowPassUnit>> }

(* LowPassActionFilter::new *)
LowPassActionFilterNew(control, cutoff) ==
    [alpha_num |-> control, alpha_den |-> control + cutoff,
     last_action |-> <<>>, current_action |-> <<>>, initialized |-> FALSE]

(* LowPassActionFilter::push *)
low_pass_push(self, action) ==
    [self EXCEPT !.last_action = IF self.initialized THEN @ ELSE action,
                 !.initialized = TRUE,
                 !.current_action = action]

(* get_filtered_action with alpha = 1: the output is held. *)
low_pass_hold(self) == self

(* LowPassActionFilter::get_filtered_action, the filter after it; the result
   is its last_action.  zip stops at the shorter vector. *)
low_pass_get_filtered_action(self) ==
    [self EXCEPT !.last_action =
        [i \in 1..Min(Len(self.last_action), Len(self.current_action)) |->
            TruncDiv(self.alpha_num * self.last_action[i]
                     + (self.alpha_den - self.alpha_num) * self.current_action[i],
                     self.alpha_den)]]

----------------------------------------------------------------------------
(* The control loop: main.rs:206-402.  The gamepad thread is seen through
   what get_last_command returns, the policy through what infer returns. *)

(* Control-loop iterations modelled. *)
MaxIterations == 3

(* The policy's input and output lengths; 101 is the observation built from
   NUM_DOFS joints (main.rs:301-306). *)
Policies ==
    { [obs_dim |-> 101, act_dim |-> NUM_DOFS],
      [obs_dim |-> 100, act_dim |-> NUM_DOFS],
      [obs_dim |-> 101, act_dim |-> NUM_DOFS - 1] }

(* The entries of an action, in units of 1 / action_scale angle units. *)
ActionValues == {-8000, 12000}

Actions(n) == {[i \in 1..n |-> a] : a \in ActionValues}

(* args.action_scale, 0.25, as a divisor *)
action_scale_inv == 4

(* What get_last_command returns in an iteration: a.triggered,
   dpad_up.triggered, dpad_down.triggered, lb.is_pressed and the commands
   (the head axes are entries 4..7). *)
GamepadOutputs ==
    { [a |-> FALSE, dpad_up |-> FALSE, dpad_down |-> FALSE, lb |-> FALSE,
       commands |-> <<0, 0, 0, 0, 0, 0, 0>>],
      [a |-> TRUE, dpad_up |-> FALSE, dpad_down |-> TRUE, lb |-> FALSE,
       commands |-> <<0, 0, 0, 0, 0, 0, 0>>],
      [a |-> FALSE, dpad_up |-> TRUE, dpad_down |-> FALSE, lb |-> TRUE,
       commands |-> <<0, 0, 0, 700, -300, 0, 100>>] }

(* What the servos answer to a group read in the loop: every reply, or
   nothing. *)
LoopResponses ==
    [base : {1000}, kind : {"none"}, at : {1},
     n : {0, (6 + 2) * 5 + 7, (6 + 2) * NUM_DOFS}]

(* args.cutoff_frequency: None, or Some of a frequency. *)
LoopCutoffs == {<<>>, <<cutoff_frequency>>}

(* start_time.elapsed() in ms where iteration k reads it (main.rs:368): the
   first iteration a control period before one second has passed, the
   second at one second, each later one a control period after the one
   before. *)
Instants(k) == {1000 + 20 * (k - 2)}

ZeroAction == [i \in Joints |-> 0]

(* The loop's state that a skipped iteration must leave alone. *)
LoopState ==
    [history |-> <<last_action, last_last_action, last_last_last_action>>,
     targets |-> motor_targets,
     step_index |-> phase_tracker.step_index]

(* The history of an iteration: whether it found the loop paused, the call
   that failed first ("none", "read", "infer", "write"), the numbers of
   group reads, inference calls and motor writes made, the length of the
   observation built, and LoopState when it started. *)
NoIter ==
    [paused |-> FALSE, failed |-> "none", reads |-> 0, infers |-> 0,
     writes |-> 0, obs_len |-> 0, top |-> <<>>,
     got |-> <<>>, obs |-> <<>>, elapsed |-> -1, unfiltered |-> <<>>,
     staged |-> <<>>, sleep |-> "none"]

LoopIdle ==
    /\ last_action = ZeroAction
    /\ last_last_action = ZeroAction
    /\ last_last_last_action = ZeroAction
    /\ motor_targets = init_positions_array
    /\ last_commands = <<0, 0, 0, 0, 0, 0, 0>>
    /\ dof_pos = <<>>
    /\ policy = [obs_dim |-> 101, act_dim |-> NUM_DOFS]
    /\ iterations = 0
    /\ iter = NoIter
    /\ main_filter = <<>>
    /\ inferred = <<>>
    /\ handed = <<>>

RestIdle == PhaseIdle /\ ButtonIdle /\ LoopIdle

(* main.rs:122-123, 206-214: the policy is loaded, the state vectors are
   set. *)
InitLoop ==
    /\ last_action = ZeroAction
    /\ last_last_action = ZeroAction
    /\ last_last_last_action = ZeroAction
    /\ motor_targets = init_positions_array
    /\ last_commands = <<0, 0, 0, 0, 0, 0, 0>>
    /\ dof_pos = <<>>
    /\ policy \in Policies
    /\ iterations = 0
    /\ iter = NoIter
    /\ \E cutoff \in LoopCutoffs :
        main_filter = IF cutoff = <<>> THEN <<>>
                      ELSE <<LowPassActionFilterNew(control_freq, cutoff[1])>>
    /\ inferred = <<>>
    /\ handed = <<>>

(* The configuration's joints_offset in the loop. *)
LoopOffsets == [i \in Joints |-> 250 * i - 1000]

(* main.rs:126-143 done without an error, with the default gains: the bus
   when the loop starts.  turn_on left 2 in kps and in the
   P gain of every servo. *)
BusStarted ==
    /\ pc = "tick"
    /\ args = [kp |-> 30, kd |-> 0]
    /\ offsets = LoopOffsets
    /\ kps = [i \in Joints |-> 2]
    /\ kds = [i \in Joints |-> 0]
    /\ dev = [id \in IdSet |-> [a \in RegAddrs |->
                 IF a = ADDR_TORQUE_ENABLE THEN 1
                 ELSE IF a = ADDR_P_GAIN THEN 2
                 ELSE IF a = ADDR_D_GAIN THEN 0
                 ELSE LET i == CHOOSE j \in Joints : JOINT_IDS[j] = id
                      IN rad_to_raw(init_positions_array[i] + LoopOffsets[i])]]
    /\ wire = <<>>
    /\ lastOp = "none"
    /\ lastOk = TRUE
    /\ lastArg = <<>>
    /\ resp = NoResp
    /\ readResult = <<>>

(* The observation with the init positions where the stored targets go. *)
build_obs_init_targets(pos, vel, imitation_phase) ==
    <<0, 0, 0>> \o <<0, 0, 0>> \o last_commands
    \o [i \in Joints |-> pos[i] - init_positions_array[i]]
    \o [i \in Joints |-> vel[i] \div 20]
    \o last_action \o last_last_action \o last_last_last_action
    \o init_positions_array \o <<0, 0>> \o imitation_phase

(* main.rs:301-339: the observation vector; the IMU and the feet contacts
   are not followed and stand as zeros. *)
build_obs(pos, vel, imitation_phase) ==
    <<0, 0, 0>> \o <<0, 0, 0>> \o last_commands
    \o [i \in Joints |-> pos[i] - init_positions_array[i]]
    \o [i \in Joints |-> vel[i] \div 20]
    \o last_action \o last_last_action \o last_last_last_action
    \o motor_targets \o <<0, 0>> \o imitation_phase

(* PolicyInference::infer: Err when the session rejects the input (its
   length is not the policy's) or the run fails otherwise; else the action. *)
infer(observation, run_fails, action) ==
    IF Len(observation) # policy.obs_dim \/ run_fails
    THEN [ok |-> FALSE, action |-> <<>>]
    ELSE [ok |-> TRUE, action |-> action]

(* main.rs:359-363: init_pos zipped with the action. *)
targets_of(action) ==
    [i \in 1..Min(NUM_DOFS, Len(action)) |->
        init_positions_array[i] + action[i] \div action_scale_inv]

(* main.rs:375-380: the head commands are added when there are more than 8
   targets. *)
head_override(targets) ==
    IF Len(targets) > 8
    THEN [i \in 1..Len(targets) |->
            IF i \in 6..9 THEN last_commands[i - 2] + targets[i]
            ELSE targets[i]]
    ELSE targets

(* The filter stage without the bypass of the first second. *)
filter_stage_at_once(filter, targets, elapsed) ==
    IF filter = <<>> THEN [filter |-> filter, targets |-> targets]
    ELSE LET pushed_f == low_pass_push(filter[1], targets)
             got_f == low_pass_get_filtered_action(pushed_f)
         IN [filter |-> <<got_f>>, targets |-> got_f.last_action]

(* main.rs:365-371: with a filter, the targets are pushed, and replaced by
   the filtered ones when more than one second has passed since start_time. *)
filter_stage(filter, targets, elapsed) ==
    IF filter = <<>> THEN [filter |-> filter, targets |-> targets]
    ELSE LET pushed_f == low_pass_push(filter[1], targets)
             got_f == low_pass_get_filtered_action(pushed_f)
         IN IF elapsed > 1000
            THEN [filter |-> <<got_f>>, targets |-> got_f.last_action]
            ELSE [filter |-> <<pushed_f>>, targets |-> targets]

(* The head commands added before the filter stage. *)
targets_after_override_first(filter, action, elapsed) ==
    LET unfiltered == head_override(targets_of(action))
        stage == filter_stage(filter, unfiltered, elapsed)
    IN [filter |-> stage.filter, unfiltered |-> targets_of(action),
        staged |-> stage.targets, targets |-> stage.targets]

(* main.rs:357-380: the targets of an action: init + action * scale, the
   filter stage, then the head commands. *)
targets_after(filter, action, elapsed) ==
    LET unfiltered == targets_of(action)
        stage == filter_stage(filter, unfiltered, elapsed)
    IN [filter |-> stage.filter, unfiltered |-> unfiltered,
        staged |-> stage.targets, targets |-> head_override(stage.targets)]

(* An inference error that falls through to the timing block. *)
match_infer_paced(ok) == IF ok THEN "write" ELSE "pace"

(* main.rs:343-349: Ok(a) => a, Err(e) => { ...; continue } *)
match_infer(ok) == IF ok THEN "write" ELSE "tick"

(* make_action_dict: the targets by joint, as many as there are. *)
make_action_dict(action) ==
    [i \in 1..Min(NUM_DOFS, Len(action)) |-> action[i]]

(* main.rs:276-279: if paused { sleep(100 ms); continue } *)
after_input_runs(is_paused) == "read_pos"

after_input(is_paused) == IF is_paused THEN "tick" ELSE "read_pos"

(* main.rs:285-293: a read that is not Some of NUM_DOFS values: continue *)
match_read_resend(ok, next) == IF ok THEN next ELSE "write"

match_read(ok, next) == IF ok THEN next ELSE "tick"

(* The history with the newest action put in place of the one before it,
   nothing shifted. *)
history_after_no_shift(res) ==
    IF res.ok THEN <<res.action, last_last_action, last_last_last_action>>
    ELSE <<last_action, last_last_action, last_last_last_action>>

(* main.rs:343-355: the action history after the inference call: shifted by
   the action, or as it was when the call failed. *)
history_after_any(res) == <<res.action, last_action, last_last_action>>

history_after(res) ==
    IF res.ok THEN <<res.action, last_action, last_last_action>>
    ELSE <<last_action, last_last_action, last_last_last_action>>

(* main.rs:385-387: an Err of set_position_all is logged. *)
after_write_fatal(st) == IF st.err THEN "aborted" ELSE "pace"

after_write(st) == "pace"

(* main.rs:223-279: the iteration starts; the gamepad's output is handled
   (pause toggle, offset adjustments, sprint); a paused loop sleeps 100 ms
   and starts over. *)
LoopGamepad ==
    /\ pc = "tick"
    /\ iterations < MaxIterations
    /\ iterations' = iterations + 1
    /\ \E output \in GamepadOutputs :
        LET p1 == IF output.dpad_up THEN adjust_offset(phase_tracker, 1)
                  ELSE phase_tracker
            p2 == IF output.dpad_down THEN adjust_offset(p1, -1) ELSE p1
        IN /\ last_commands' = output.commands
           /\ paused' = IF output.a THEN ~paused ELSE paused
           /\ phase_tracker' = set_sprint(p2, output.lb)
           /\ phase_call' = PhaseCall("set_sprint", output.lb, 0, p2)
           /\ offset_given' = offset_given
                   + (IF output.dpad_up THEN 1 ELSE 0)
                   - (IF output.dpad_down THEN 1 ELSE 0)
    /\ pc' = after_input(paused')
    /\ iter' = [NoIter EXCEPT !.paused = paused', !.top = LoopState,
                              !.sleep = IF pc' = "tick" THEN "pause" ELSE "none"]
    /\ wire' = <<>>
    /\ lastOp' = "none"
    /\ lastOk' = TRUE
    /\ lastArg' = <<>>
    /\ resp' = NoResp
    /\ readResult' = <<>>
    /\ dof_pos' = <<>>
    /\ UNCHANGED <<args, offsets, kps, kds, dev, last_action, last_last_action,
                   last_last_last_action, motor_targets, policy, main_filter,
                   inferred, handed>>
    /\ UNCHANGED <<xbox, worker, a_pressed, buttons_a, now, tick, data_ch,
                   stop_ch, last_output, computed, returned, toggles,
                   adjusts, run_start, run_len, checksumVars, buttonVars, moreVars>>

(* What the rest of the loop's steps leave alone. *)
LoopFrame ==
    UNCHANGED <<args, offsets, policy, iterations, last_commands, inputVars,
                offset_given, adjusts, run_start, run_len, checksumVars, buttonVars, moreVars>>

(* main.rs:285-288: get_present_positions; anything but Some of NUM_DOFS
   values skips the tick. *)
LoopReadPositions ==
    /\ pc = "read_pos"
    /\ \E budget \in 0..1 :
       \E r \in IF budget = 0 THEN {NoResp} ELSE LoopResponses :
        LET got == get_present_positions(Call(budget), Received(r))
            ok == got.result # <<>> /\ Len(got.result[1]) = NUM_DOFS
        IN /\ Commit(got.st, "get_present_positions", <<>>)
           /\ resp' = r
           /\ readResult' = got.result
           /\ dof_pos' = IF ok THEN got.result[1] ELSE <<>>
           /\ pc' = match_read(ok, "read_vel")
           /\ iter' = [iter EXCEPT !.reads = @ + 1,
                          !.got = Append(@, Len(Received(r))),
                          !.failed = IF ok THEN @ ELSE "read"]
    /\ UNCHANGED <<phase_tracker, phase_call, last_action, last_last_action,
                   last_last_last_action, motor_targets, main_filter,
                   inferred, handed>>
    /\ LoopFrame

(* main.rs:290-293: get_present_velocities, likewise. *)
LoopReadVelocities ==
    /\ pc = "read_vel"
    /\ \E budget \in 0..1 :
       \E r \in IF budget = 0 THEN {NoResp} ELSE LoopResponses :
        LET got == get_present_velocities(Call(budget), Received(r))
            ok == got.result # <<>> /\ Len(got.result[1]) = NUM_DOFS
        IN /\ Commit(got.st, "get_present_velocities", <<>>)
           /\ resp' = r
           /\ readResult' = got.result
           /\ pc' = match_read(ok, "infer")
           /\ iter' = [iter EXCEPT !.reads = @ + 1,
                          !.got = Append(@, Len(Received(r))),
                          !.failed = IF ok THEN @ ELSE "read"]
    /\ UNCHANGED <<phase_tracker, phase_call, dof_pos, last_action,
                   last_last_action, last_last_last_action, motor_targets,
                   main_filter, inferred, handed>>
    /\ LoopFrame

(* main.rs:295-380: the phase advances, the observation is built, the policy
   is run; an error skips the tick, an action shifts the history and gives
   the targets, with the head commands added. *)
LoopInfer ==
    /\ pc = "infer"
    /\ phase_tracker' = step(phase_tracker)
    /\ phase_call' = PhaseCall("step", FALSE, 0, phase_tracker)
    /\ \E run_fails \in BOOLEAN, action \in Actions(policy.act_dim) :
       \E elapsed \in IF main_filter = <<>> THEN {-1} ELSE Instants(iterations) :
        LET imitation_phase == <<phase_signal(phase_tracker'),
                                 phase_signal(phase_tracker')>>
            obs == build_obs(dof_pos, readResult[1], imitation_phase)
            res == infer(obs, run_fails, action)
            history == history_after(res)
            out == targets_after(main_filter, res.action, elapsed)
        IN /\ iter' = [iter EXCEPT !.infers = @ + 1,
                          !.failed = IF res.ok THEN @ ELSE "infer",
                          !.obs_len = Len(obs),
                          !.obs = obs,
                          !.elapsed = IF res.ok THEN elapsed ELSE -1,
                          !.unfiltered = IF res.ok THEN out.unfiltered ELSE <<>>,
                          !.staged = IF res.ok THEN out.staged ELSE <<>>]
           /\ last_action' = history[1]
           /\ last_last_action' = history[2]
           /\ last_last_last_action' = history[3]
           /\ inferred' = IF res.ok THEN Append(inferred, res.action)
                           ELSE inferred
           /\ main_filter' = IF res.ok THEN out.filter ELSE main_filter
           /\ motor_targets' = IF res.ok THEN out.targets ELSE motor_targets
           /\ pc' = match_infer(res.ok)
    /\ UNCHANGED <<kps, kds, dev, wire, lastOp, lastOk, lastArg, resp,
                   readResult, dof_pos, handed>>
    /\ LoopFrame

(* main.rs:382-387: set_position_all of the targets; an error is logged. *)
LoopWrite ==
    /\ pc = "write"
    /\ \E budget \in 0..1 :
        LET action_dict == make_action_dict(motor_targets)
            st == set_position_all(Call(budget), action_dict)
        IN /\ Commit(st, "set_position_all", action_dict)
           /\ iter' = [iter EXCEPT !.writes = @ + 1,
                          !.failed = IF st.err /\ @ = "none" THEN "write"
                                     ELSE @]
           /\ handed' = <<[targets |-> action_dict, ok |-> ~st.err]>>
           /\ pc' = after_write(st)
    /\ UNCHANGED <<resp, readResult, dof_pos, phase_tracker, phase_call,
                   main_filter, inferred,
                   last_action,
                   last_last_action, last_last_last_action, motor_targets>>
    /\ LoopFrame

(* main.rs:389-401: the timing block: the time the tick took is compared
   with the control period and the rest of the period is slept. *)
LoopPace ==
    /\ pc = "pace"
    /\ pc' = "tick"
    /\ iter' = [iter EXCEPT !.sleep = "budget"]
    /\ UNCHANGED <<kps, kds, dev, wire, lastOp, lastOk, lastArg, resp,
                   readResult, dof_pos, phase_tracker, phase_call,
                   main_filter, inferred, handed, last_action,
                   last_last_action, last_last_last_action, motor_targets>>
    /\ LoopFrame

----------------------------------------------------------------------------
(* The IMU thread and its single-slot channel: imu.rs:50-181. *)

(* Samples imu_worker builds. *)
MaxSamples == 3

(* get_data calls modelled. *)
MaxGets == 3

(* imu_worker is between its spawn and its return. *)
ImuWorkerRuns == imu_pc \in {"top", "read", "send", "evict", "resend"}

(* No IMU: what the specifications of the other parts start from. *)
ImuIdle ==
    /\ imu = "absent"
    /\ imu_pc = "unspawned"
    /\ imu_ch = <<>>
    /\ imu_stop_ch = <<>>
    /\ last_data = 0
    /\ imu_n = 0
    /\ published = 0
    /\ gets = 0

(* main.rs:146-149: main reaches Imu::new. *)
InitImu ==
    /\ imu = "unset"
    /\ imu_pc = "unspawned"
    /\ imu_ch = <<>>
    /\ imu_stop_ch = <<>>
    /\ last_data = 0
    /\ imu_n = 0
    /\ published = 0
    /\ gets = 0

(* Imu::new: an I2C error returns Err before the thread is spawned (main
   returns on it); otherwise the thread is spawned and last_data is
   ImuData::default(). *)
ImuNew ==
    /\ imu = "unset"
    /\ \E i2c_ok \in BOOLEAN :
        /\ imu' = IF i2c_ok THEN "some" ELSE "failed"
        /\ imu_pc' = IF i2c_ok THEN "top" ELSE imu_pc
    /\ imu_ch' = <<>>
    /\ imu_stop_ch' = <<>>
    /\ last_data' = 0
    /\ UNCHANGED <<imu_n, published, gets, stops, busVars, inputVars,
                   checksumVars, restVars,
                   otherVars>>

(* imu_worker, top of the loop: stop_rx.try_recv().is_ok() => break *)
ImuWorkerCheckStop ==
    /\ imu_pc = "top"
    /\ IF stop_taken(imu_stop_ch)
       THEN /\ imu_stop_ch' = <<>>
            /\ imu_pc' = "exited"
            /\ stops' = stop_received("imu")
       ELSE /\ imu_stop_ch' = imu_stop_ch
            /\ imu_pc' = "read"
            /\ stops' = stops
    /\ UNCHANGED <<imu, imu_ch, last_data, imu_n, published, gets, busVars,
                   inputVars, checksumVars, restVars,
                   otherVars>>

(* imu_worker, the two read_vector calls: an Err continues with the next
   iteration, without the sleep; otherwise data is built. *)
ImuWorkerRead ==
    /\ imu_pc = "read"
    /\ \E read_ok \in BOOLEAN :
        /\ read_ok => imu_n < MaxSamples
        /\ imu_n' = IF read_ok THEN imu_n + 1 ELSE imu_n
        /\ imu_pc' = IF read_ok THEN "send" ELSE "top"
    /\ UNCHANGED <<imu, imu_ch, imu_stop_ch, last_data, published, gets, stops,
                   busVars, inputVars, checksumVars, restVars,
                   otherVars>>

(* imu_worker, data_tx.try_send(data): Ok, then the sleep; Full, the
   eviction follows; Disconnected, break. *)
ImuWorkerSend ==
    /\ imu_pc = "send"
    /\ IF imu = "dropped"
       THEN /\ imu_pc' = "exited"
            /\ UNCHANGED <<imu_ch, published>>
       ELSE IF imu_ch = <<>>
       THEN /\ imu_ch' = try_send(imu_ch, imu_n)
            /\ published' = imu_n
            /\ imu_pc' = "top"
       ELSE /\ imu_pc' = "evict"
            /\ UNCHANGED <<imu_ch, published>>
    /\ UNCHANGED <<imu, imu_stop_ch, last_data, imu_n, gets, stops, busVars,
                   inputVars, checksumVars, restVars,
                   otherVars>>

(* imu_worker, the Full arm: the undrained sample is taken out of the slot
   (nothing to take if the consumer drained it meanwhile). *)
ImuWorkerEvict ==
    /\ imu_pc = "evict"
    /\ imu_ch' = <<>>
    /\ imu_pc' = "resend"
    /\ UNCHANGED <<imu, imu_stop_ch, last_data, imu_n, published, gets, stops,
                   busVars, inputVars, checksumVars, restVars,
                   otherVars>>

(* imu_worker, the Full arm: let _ = data_tx.try_send(data), then the
   sleep. *)
ImuWorkerResend ==
    /\ imu_pc = "resend"
    /\ IF imu = "dropped"
       THEN UNCHANGED <<imu_ch, published>>
       ELSE /\ imu_ch' = try_send(imu_ch, imu_n)
            /\ published' = IF imu_ch = <<>> THEN imu_n ELSE published
    /\ imu_pc' = "top"
    /\ UNCHANGED <<imu, imu_stop_ch, last_data, imu_n, gets, stops, busVars,
                   inputVars, checksumVars, restVars,
                   otherVars>>

(* get_data falling back to ImuData::default() on an empty slot. *)
get_data_or_default ==
    IF imu_ch # <<>> THEN Head(imu_ch) ELSE 0

(* Imu::get_data: the result is the new last_data. *)
get_data ==
    IF imu_ch # <<>> THEN Head(imu_ch) ELSE last_data

(* main.rs:283, imu_sensor.get_data() *)
ImuGetData ==
    /\ imu = "some"
    /\ gets < MaxGets
    /\ last_data' = get_data
    /\ imu_ch' = <<>>
    /\ gets' = gets + 1
    /\ UNCHANGED <<imu, imu_pc, imu_stop_ch, imu_n, published, stops, busVars,
                   inputVars, checksumVars, restVars,
                   otherVars>>

(* Imu::stop: let _ = self.stop_tx.try_send(()) *)
ImuStop ==
    /\ imu = "some"
    /\ stops["imu"].calls < MaxStops
    /\ imu_stop_ch' = IF imu_pc = "exited" THEN imu_stop_ch
                      ELSE try_send(imu_stop_ch, "stop")
    /\ stops' = stop_called("imu", ImuWorkerRuns)
    /\ UNCHANGED <<imu, imu_pc, imu_ch, last_data, imu_n, published, gets,
                   busVars, inputVars, checksumVars, restVars,
                   otherVars>>

(* Drop for Imu (main returns): stop(), then the receiver of the data
   channel goes with the handle. *)
ImuDrop ==
    /\ imu = "some"
    /\ imu' = "dropped"
    /\ imu_stop_ch' = IF imu_pc = "exited" THEN imu_stop_ch
                      ELSE try_send(imu_stop_ch, "stop")
    /\ stops' = stop_called("imu", ImuWorkerRuns)
    /\ UNCHANGED <<imu_pc, imu_ch, last_data, imu_n, published, gets, busVars,
                   inputVars, checksumVars, restVars,
                   otherVars>>

----------------------------------------------------------------------------
(* The unit round trip: an angle through rad_to_raw and raw_to_rad
   (motors.rs:381-392). *)

(* Raw steps on either side of the centre whose angles are converted. *)
RawSpan == 2100

(* Positions inside one raw step, in angle units. *)
FracSteps == {0, 1, AnglePerStep \div 2, AnglePerStep - 1}

(* The angles converted: in and beyond the range of raw 0..4095. *)
Angles ==
    {k * AnglePerStep + f : k \in (-RawSpan)..RawSpan, f \in FracSteps}

UnitIdle ==
    /\ unit_pc = "idle"
    /\ rad_in = 0
    /\ raw_out = 0
    /\ rad_back = 0

InitUnit ==
    /\ unit_pc = "rad"
    /\ rad_in \in Angles
    /\ raw_out = 0
    /\ rad_back = 0

(* raw = rad_to_raw(r) *)
UnitToRaw ==
    /\ unit_pc = "rad"
    /\ raw_out' = rad_to_raw(rad_in)
    /\ unit_pc' = "raw"
    /\ UNCHANGED <<rad_in, rad_back, busVars, inputVars, checksumVars,
                   restVars, stops, imuVars, filterVars, lowPassVars,
                   disables>>

(* raw_to_rad(raw) *)
UnitToRad ==
    /\ unit_pc = "raw"
    /\ rad_back' = raw_to_rad(raw_out)
    /\ unit_pc' = "back"
    /\ UNCHANGED <<rad_in, raw_out, busVars, inputVars, checksumVars,
                   restVars, stops, imuVars, filterVars, lowPassVars,
                   disables>>

----------------------------------------------------------------------------
(* The moving-average ActionFilter: rl_utils.rs:69-100.  A value is an
   integer number of sixths, so that the mean of up to three values is
   exact. *)

(* Pushes modelled. *)
MaxPushes == 4

(* window_size *)
WindowSizes == 0..3

(* The vectors pushed: [1, 2], [4, 5], [7, 8] and [-1, 0], in sixths. *)
PushVectors == {<<6, 12>>, <<24, 30>>, <<42, 48>>, <<-6, 0>>}

(* ActionFilter::new *)
ActionFilterNew(window_size) ==
    [window_size |-> window_size, buffer |-> <<>>]

(* push that drops the vector just pushed when the window is full. *)
push_keep_oldest(self, action) ==
    LET b == Append(self.buffer, action)
    IN [self EXCEPT !.buffer =
           IF Len(b) > self.window_size THEN SubSeq(b, 1, Len(b) - 1) ELSE b]

(* ActionFilter::push *)
push(self, action) ==
    LET b == Append(self.buffer, action)
    IN [self EXCEPT !.buffer =
           IF Len(b) > self.window_size THEN Tail(b) ELSE b]

(* self.buffer.iter().map(|a| a[i]).sum() *)
RECURSIVE ColumnSum(_, _)
ColumnSum(buffer, i) ==
    IF buffer = <<>> THEN 0
    ELSE Head(buffer)[i] + ColumnSum(Tail(buffer), i)

(* ActionFilter::get_filtered_action *)
get_filtered_action(self) ==
    IF self.buffer = <<>> THEN <<>>
    ELSE LET n == Len(self.buffer[1])
             count == Len(self.buffer)
         IN [i \in 1..n |-> TruncDiv(ColumnSum(self.buffer, i), count)]

FilterIdle ==
    /\ action_filter = ActionFilterNew(0)
    /\ pushed = <<>>
    /\ filtered = <<>>
    /\ filtered_at = -1

InitFilter ==
    /\ \E w \in WindowSizes : action_filter = ActionFilterNew(w)
    /\ pushed = <<>>
    /\ filtered = <<>>
    /\ filtered_at = -1

(* filter.push(&action) *)
FilterPush ==
    /\ Len(pushed) < MaxPushes
    /\ \E action \in PushVectors :
        /\ action_filter' = push(action_filter, action)
        /\ pushed' = Append(pushed, action)
    /\ UNCHANGED <<filtered, filtered_at, busVars, inputVars, checksumVars,
                   restVars, stops, imuVars, unitVars, lowPassVars, disables>>

(* filter.get_filtered_action() *)
FilterGet ==
    /\ filtered_at # Len(pushed)
    /\ filtered' = get_filtered_action(action_filter)
    /\ filtered_at' = Len(pushed)
    /\ UNCHANGED <<action_filter, pushed, busVars, inputVars, checksumVars,
                   restVars, stops, imuVars, unitVars, lowPassVars, disables>>

----------------------------------------------------------------------------
(* The LowPassActionFilter pushed the same target tick after tick:
   rl_utils.rs:145-160. *)

LowPassIdle ==
    /\ low_pass = LowPassActionFilterNew(control_freq, cutoff_frequency)
    /\ lp_target = <<>>
    /\ lp_ticks = 0

(* A new filter, or one that was first given another vector. *)
InitLowPass ==
    /\ \/ low_pass = LowPassActionFilterNew(control_freq, cutoff_frequency)
       \/ \E v \in StartVectors :
            low_pass = low_pass_push(
                LowPassActionFilterNew(control_freq, cutoff_frequency), v)
    /\ lp_target = LowPassTarget
    /\ lp_ticks = 0

(* filter.push(&target); filter.get_filtered_action(); *)
LowPassTick ==
    /\ lp_ticks < MaxLowPassTicks
    /\ low_pass' = low_pass_get_filtered_action(low_pass_push(low_pass, lp_target))
    /\ lp_ticks' = lp_ticks + 1
    /\ UNCHANGED <<lp_target, busVars, inputVars, checksumVars, restVars, stops,
                   imuVars, unitVars, filterVars, disables>>

----------------------------------------------------------------------------
(* Disabling the servos: MotorController::turn_off, motors.rs:176-184. *)

(* turn_off calls modelled. *)
MaxDisables == 2

(* turn_off that stops after the first servo. *)
turn_off_first_only(st) ==
    write_register(st, JOINT_IDS[1], ADDR_TORQUE_ENABLE, <<0>>)

(* turn_off *)
turn_off(st) ==
    write_each(st, ADDR_TORQUE_ENABLE, [i \in Joints |-> 0], 1)

(* hwi.turn_off(): the port takes budget frames before it fails (NUM_DOFS:
   it does not fail). *)
TurnOff ==
    /\ Len(disables) < MaxDisables
    /\ \E budget \in 0..NUM_DOFS :
        LET st == turn_off(Call(budget))
        IN /\ Commit(st, "turn_off", <<>>)
           /\ disables' = Append(disables, [budget |-> budget, ok |-> ~st.err])
    /\ UNCHANGED <<pc, args, offsets, resp, readResult, inputVars,
                   checksumVars, restVars, stops, imuVars, unitVars,
                   filterVars, lowPassVars>>

OtherIdle ==
    /\ UnitIdle
    /\ FilterIdle
    /\ LowPassIdle
    /\ disables = <<>>

MoreIdle ==
    /\ stops = NoStops
    /\ ImuIdle
    /\ OtherIdle

----------------------------------------------------------------------------
(* The bus variables while another part of the program is looked at. *)
BusIdle ==
    /\ pc = "aborted"
    /\ args = [kp |-> 30, kd |-> 0]
    /\ offsets = ZeroOffsets
    /\ kps = <<>>
    /\ kds = <<>>
    /\ dev = [id \in IdSet |-> [a \in RegAddrs |-> -1]]
    /\ wire = <<>>
    /\ lastOp = "none"
    /\ lastOk = TRUE
    /\ lastArg = <<>>
    /\ resp = NoResp
    /\ readResult = <<>>

----------------------------------------------------------------------------
(* The specifications. *)

Init == InitBus /\ InputIdle /\ ChecksumIdle /\ RestIdle /\ MoreIdle

Next ==
    \/ MotorControllerNew
    \/ MainSetKps
    \/ MainSetKds
    \/ MainTurnOn
    \/ TickStart
    \/ GetPresentPositions
    \/ MatchPositions
    \/ GetPresentVelocities
    \/ MatchVelocities
    \/ InferenceFails
    \/ SetPositionAll

Spec == Init /\ [][Next]_vars

InitInputSpec ==
    BusIdle /\ InitInput /\ ChecksumIdle /\ RestIdle /\ MoreIdle

NextInput ==
    \/ XBoxControllerNew
    \/ WorkerInit
    \/ WorkerCheckStop
    \/ WorkerSample
    \/ MainGamepadInput
    \/ XBoxControllerDrop

SpecInput == InitInputSpec /\ [][NextInput]_vars

InitPhaseSpec ==
    /\ BusIdle /\ InputIdle /\ ChecksumIdle /\ InitPhase /\ ButtonIdle
    /\ LoopIdle /\ MoreIdle

NextPhase ==
    \/ PhaseStep
    \/ PhaseSetSprint
    \/ PhaseAdjustOffset

SpecPhase == InitPhaseSpec /\ [][NextPhase]_vars

InitButtonSpec ==
    BusIdle /\ InitButton /\ ChecksumIdle /\ PhaseIdle /\ LoopIdle /\ MoreIdle

NextButton == ButtonUpdate

SpecButton == InitButtonSpec /\ [][NextButton]_vars

InitLoopSpec ==
    /\ BusStarted /\ InitInput /\ ChecksumIdle /\ PhaseIdle /\ ButtonIdle
    /\ InitLoop /\ MoreIdle

NextLoop ==
    \/ LoopGamepad
    \/ LoopReadPositions
    \/ LoopReadVelocities
    \/ LoopInfer
    \/ LoopWrite
    \/ LoopPace

SpecLoop == InitLoopSpec /\ [][NextLoop]_vars

InitChecksumSpec ==
    BusIdle /\ InputIdle /\ InitChecksum /\ RestIdle /\ MoreIdle

NextChecksum ==
    \/ EncodeFrame
    \/ ChangeByte

SpecChecksum == InitChecksumSpec /\ [][NextChecksum]_vars

InitUnitSpec ==
    /\ BusIdle /\ InputIdle /\ ChecksumIdle /\ RestIdle
    /\ stops = NoStops /\ ImuIdle
    /\ InitUnit /\ FilterIdle /\ LowPassIdle /\ disables = <<>>

NextUnit ==
    \/ UnitToRaw
    \/ UnitToRad

SpecUnit == InitUnitSpec /\ [][NextUnit]_vars

InitFilterSpec ==
    /\ BusIdle /\ InputIdle /\ ChecksumIdle /\ RestIdle
    /\ stops = NoStops /\ ImuIdle
    /\ UnitIdle /\ InitFilter /\ LowPassIdle /\ disables = <<>>

NextFilter ==
    \/ FilterPush
    \/ FilterGet

SpecFilter == InitFilterSpec /\ [][NextFilter]_vars

InitLowPassSpec ==
    /\ BusIdle /\ InputIdle /\ ChecksumIdle /\ RestIdle
    /\ stops = NoStops /\ ImuIdle
    /\ UnitIdle /\ FilterIdle /\ InitLowPass /\ disables = <<>>

NextLowPass == LowPassTick

SpecLowPass == InitLowPassSpec /\ [][NextLowPass]_vars

(* turn_off called on a controller that was started, or on one that was
   only constructed. *)
InitDisableSpec ==
    /\ BusStarted \/ BusIdle
    /\ InputIdle /\ ChecksumIdle /\ RestIdle /\ MoreIdle

NextDisable == TurnOff

SpecDisable == InitDisableSpec /\ [][NextDisable]_vars

(* No gamepad: args.commands is false, xbox_controller is None. *)
InputNone ==
    /\ xbox = "none"
    /\ worker = "unspawned"
    /\ a_pressed = FALSE
    /\ buttons_a = ButtonStateNew
    /\ now = 0
    /\ tick = 0
    /\ data_ch = <<>>
    /\ stop_ch = <<>>
    /\ last_output = ControllerOutputDefault
    /\ paused = FALSE
    /\ computed = {}
    /\ returned = {}
    /\ toggles = NoToggles

(* A producer thread and its handle: the gamepad's, in a build with the
   mock IMU, or the IMU's, in a run without gamepad. *)
InitProducers ==
    /\ BusIdle /\ ChecksumIdle /\ RestIdle
    /\ stops = NoStops
    /\ OtherIdle
    /\ \/ InitInput /\ ImuIdle
       \/ InputNone /\ InitImu

NextImu ==
    \/ ImuNew
    \/ ImuWorkerCheckStop
    \/ ImuWorkerRead
    \/ ImuWorkerSend
    \/ ImuWorkerEvict
    \/ ImuWorkerResend
    \/ ImuGetData
    \/ ImuStop
    \/ ImuDrop

NextProducers ==
    \/ NextInput
    \/ XBoxControllerStop
    \/ NextImu

SpecProducers == InitProducers /\ [][NextProducers]_vars


(* The producer threads and their stop signal alone, the consumers' polls
   left out: they change neither thread's course. *)
NextStop ==
    \/ XBoxControllerNew
    \/ WorkerInit
    \/ WorkerCheckStop
    \/ WorkerSample
    \/ XBoxControllerStop
    \/ XBoxControllerDrop
    \/ ImuNew
    \/ ImuWorkerCheckStop
    \/ ImuWorkerRead
    \/ ImuWorkerSend
    \/ ImuWorkerEvict
    \/ ImuWorkerResend
    \/ ImuStop
    \/ ImuDrop

(* Fair scheduling: a thread that can take its next step takes it. *)
SpecStopFair ==
    /\ InitProducers
    /\ [][NextStop]_vars
    /\ WF_vars(WorkerInit)
    /\ WF_vars(WorkerCheckStop)
    /\ WF_vars(WorkerSample)
    /\ WF_vars(ImuWorkerCheckStop)
    /\ WF_vars(ImuWorkerRead)
    /\ WF_vars(ImuWorkerSend)
    /\ WF_vars(ImuWorkerEvict)
    /\ WF_vars(ImuWorkerResend)

----------------------------------------------------------------------------
(* Properties of the servo bus, checked under Spec. *)

ReadDone == pc \in {"pos_done", "vel_done"}

(* The request of the last group read reached the servos. *)
RequestSent == ReadDone /\ wire # <<>>

(* What get_present_positions / get_present_velocities make of raw value
   raw for joint i. *)
Converted(raw, i) ==
    IF pc = "pos_done" THEN raw_to_rad(raw) - offsets[i]
    ELSE raw_to_rad_per_sec(raw)

ResponseSize == (6 + 2) * NUM_DOFS

(* The bytes port.read returned, and the k-th 8-byte sub-response in them. *)
Rx == Received(resp)

Block(k) == SubSeq(Rx, 8 * (k - 1) + 1, 8 * k)

BlockComplete(k) == 8 * k <= Len(Rx)

BlockChecksumOk(k) ==
    Block(k)[8] = 255 - (SumBytes(SubSeq(Block(k), 3, 7)) % 256)

BlockValue(k) == read_i16_le(<<Block(k)[6], Block(k)[7]>>)

(* C1 (as claimed): after main's set_kps(g) and a successful turn_on, the
   proportional gain last written to each joint's servo is g[joint]. *)
C1_EnableRestoresConfiguredGains ==
    (lastOp = "turn_on" /\ lastOk) =>
        \A i \in Joints : dev[JOINT_IDS[i]][ADDR_P_GAIN] = AsU8(MainKps[i])

(* C4 (as claimed): a complete sub-response whose checksum byte does not
   verify makes the read fail, or at least its data bytes are not what the
   read returns for that position. *)
C4_BadChecksumNotParsed ==
    RequestSent =>
        \A k \in Joints :
            (BlockComplete(k) /\ ~BlockChecksumOk(k)) =>
                \/ readResult = <<>>
                \/ readResult[1][k] # Converted(BlockValue(k), k)

(* C5 (as claimed): in a successful group read every value parsed from the
   stream is the one the servo of that joint sent. *)
C5_ReadingsAttributedToOwnDevice ==
    (RequestSent /\ readResult # <<>>) =>
        \A i \in Joints :
            BlockComplete(i) =>
                /\ Block(i)[3] = JOINT_IDS[i]
                /\ readResult[1][i] = Converted(PresentRaw(resp.base, i), i)

(* C6: get_present_positions / get_present_velocities return None or
   exactly NUM_DOFS values, whatever number of bytes arrived. *)
C6_AllOrNothing ==
    ReadDone => (readResult = <<>> \/ Len(readResult[1]) = NUM_DOFS)

C6_Witness ==
    /\ pc = "vel_done"
    /\ readResult # <<>>
    /\ Len(readResult[1]) = NUM_DOFS
    /\ resp.n = 21

(* C7 (as claimed): every response shorter than all servos' replies leaves
   the call successful, each servo whose complete sub-response was received
   gets its own value, every servo beyond the cut a zero reading. *)
C7_ShortReadNeverFails ==
    (RequestSent /\ Len(Rx) < ResponseSize) =>
        /\ readResult # <<>>
        /\ \A i \in Joints :
              readResult[1][i] =
                  IF \E k \in Joints : BlockComplete(k) /\ Block(k)[3] = JOINT_IDS[i]
                  THEN Converted(PresentRaw(resp.base, i), i)
                  ELSE Converted(0, i)

(* C7 (amended): a response of b bytes, 1 <= b < 8 * NUM_DOFS, leaves the
   call successful with NUM_DOFS values: index i holds the value parsed from
   the i-th complete 8-byte sub-response of the stream, and every index past
   the last complete one holds the raw reading zero (converted like any raw
   value).  A read of 0 bytes fails. *)
C7_ShortReadPadsWithZero ==
    /\ (RequestSent /\ Len(Rx) >= 1 /\ Len(Rx) < ResponseSize) =>
          /\ readResult # <<>>
          /\ Len(readResult[1]) = NUM_DOFS
          /\ \A i \in Joints :
                readResult[1][i] =
                    IF BlockComplete(i) THEN Converted(BlockValue(i), i)
                    ELSE Converted(0, i)
    /\ (RequestSent /\ Len(Rx) = 0) => readResult = <<>>

C7_Witness ==
    /\ pc = "pos_done"
    /\ resp.kind = "none"
    /\ resp.n = 8 * 5 + 7
    /\ readResult # <<>>
    /\ readResult[1][5] = Converted(PresentRaw(resp.base, 5), 5)
    /\ readResult[1][6] = Converted(0, 6)
    /\ offsets[6] # 0

(* C8: every frame written to the port ends in the one's-complement, low
   8 bits, of the sum of its bytes after the two-byte header. *)
C8_FramesCarryChecksum ==
    \A j \in 1..Len(wire) :
        LET f == wire[j]
        IN /\ Len(f) >= 6
           /\ f[Len(f)] = 255 - (SumBytes(SubSeq(f, 3, Len(f) - 1)) % 256)

C8_Witness ==
    /\ lastOp = "turn_on"
    /\ lastOk
    /\ Len(wire) = 3 * NUM_DOFS + 1
    /\ \E j \in 1..Len(wire) : wire[j][5] = INST_SYNC_WRITE
    /\ \E j \in 1..Len(wire) : wire[j][5] = INST_WRITE

(* The group-write frame for targets pos (joint index -> angle): header,
   broadcast id, sync-write of the goal position, 2 data bytes, then for the
   joints of pos in joint order the servo id and the little-endian raw
   position of target + offset. *)
IsGroupWriteOf(f, pos) ==
    LET D == DOMAIN pos
        Rank(i) == Cardinality({j \in D : j < i})
    IN /\ Len(f) = 8 + 3 * Cardinality(D)
       /\ f[1] = 255 /\ f[2] = 255
       /\ f[3] = BROADCAST_ID
       /\ f[5] = INST_SYNC_WRITE
       /\ f[6] = ADDR_GOAL_POSITION
       /\ f[7] = 2
       /\ \A i \in D :
             /\ f[8 + 3 * Rank(i)] = JOINT_IDS[i]
             /\ f[9 + 3 * Rank(i)] + 256 * f[10 + 3 * Rank(i)]
                    = rad_to_raw(pos[i] + offsets[i])
             /\ rad_to_raw(pos[i] + offsets[i]) \in 0..4095

(* C10: a set_position_all call writes one frame, the group write of the
   joints supplied, and never one frame per joint (with a transport error it
   writes none); so does the init-position step of turn_on. *)
C10_OneGroupWriteFrame ==
    /\ lastOp = "set_position_all" =>
          /\ Len(wire) <= 1
          /\ lastOk => (Len(wire) = 1 /\ IsGroupWriteOf(wire[1], lastArg))
    /\ (lastOp = "turn_on" /\ Len(wire) > 2 * NUM_DOFS) =>
          /\ IsGroupWriteOf(wire[2 * NUM_DOFS + 1], init_positions_array)
          /\ \A j \in 1..Len(wire) :
                j # 2 * NUM_DOFS + 1 => wire[j][6] # ADDR_GOAL_POSITION

C10_Witness ==
    /\ lastOp = "set_position_all"
    /\ lastOk
    /\ DOMAIN lastArg = 1..(NUM_DOFS - 1)
    /\ offsets[2] # 0
    /\ Len(wire) = 1
    /\ wire[1][4] = 3 * (NUM_DOFS - 1) + 4

----------------------------------------------------------------------------
(* Properties of the gamepad input, checked under SpecInput. *)

(* C2: one trigger event of the pause button (one sampling tick whose output
   has a.triggered) toggles paused in at most one control-loop iteration,
   whatever the interleaving of the input thread and the control loop. *)
C2_TriggerActedOnAtMostOnce ==
    \A t \in 1..MaxTicks : toggles[t] <= 1

(* C3: no trigger edge the input thread computes is lost: the output of every
   sampling tick whose update set a.triggered has been returned by
   get_last_command or is still in the channel, from where the next call
   returns it. An output that is neither is never returned: the worker keeps
   no copy of it and its next update clears triggered. *)
C3_NoTriggerEdgeLost ==
    \A t \in computed :
        \/ t \in returned
        \/ \E i \in 1..Len(data_ch) : data_ch[i].sample = t

----------------------------------------------------------------------------
(* Properties of the checksum, checked under SpecChecksum. *)

(* A receiver recomputes the checksum over the bytes after the header and
   compares it with the stored byte. *)
Validates(f) == compute_checksum(SubSeq(f, 3, Len(f) - 1)) = f[Len(f)]

(* C9: checksum round trip: a frame encoded with compute_checksum validates,
   and the frame with any single payload byte changed to any different value
   does not. *)
C9_ChecksumRoundTrip ==
    /\ ck_pc = "encoded" => Validates(received)
    /\ ck_pc = "changed" => ~Validates(received)

(* A payload of the longest length whose last byte went from 128 to 0 (the
   sum changes by half the byte range). *)
C9_Witness ==
    /\ ck_pc = "changed"
    /\ Len(payload) = MaxPayloadLen
    /\ frame[Len(frame) - 1] = 128
    /\ received[Len(frame) - 1] = 0
    /\ \A k \in 1..Len(frame) : k # Len(frame) - 1 => received[k] = frame[k]

----------------------------------------------------------------------------
(* Properties of start-up and of the control loop's bus calls, checked under
   Spec. *)

(* main is in its control loop. *)
LoopPcs == {"tick", "read_pos", "pos_done", "read_vel", "vel_done", "write"}

(* The calls main makes before the loop, each followed by `?`. *)
StartupOps == {"new", "set_kps", "set_kds", "turn_on"}

(* The frames of a complete turn_on, in order: torque on for every joint, the
   low gain 2 for every joint, the group write of the init positions, then a
   P gain for every joint again. *)
EnableSequence(w) ==
    /\ Len(w) = 3 * NUM_DOFS + 1
    /\ \A i \in Joints :
          /\ w[i] = write_register_packet(JOINT_IDS[i], ADDR_TORQUE_ENABLE, <<1>>)
          /\ w[NUM_DOFS + i] = write_register_packet(JOINT_IDS[i], ADDR_P_GAIN, <<2>>)
          /\ \E g \in 0..255 :
                w[2 * NUM_DOFS + 1 + i]
                    = write_register_packet(JOINT_IDS[i], ADDR_P_GAIN, <<g>>)
    /\ IsGroupWriteOf(w[2 * NUM_DOFS + 1], init_positions_array)

(* The servos have seen every step of the enable sequence. *)
EnableReachedServos ==
    \A id \in IdSet :
        /\ dev[id][ADDR_TORQUE_ENABLE] = 1
        /\ dev[id][ADDR_P_GAIN] # -1
        /\ dev[id][ADDR_GOAL_POSITION] # -1

(* C11: the control loop, and so every per-tick group write of targets, comes
   after a turn_on that wrote all its steps in order (torque on, low gains,
   init positions, gains again); when the port does not open or a write of
   set_kps, set_kds or turn_on fails, main returns and the loop is never
   entered. *)
C11_EnableBeforeLoop ==
    /\ [](/\ (lastOp = "turn_on" /\ lastOk) => EnableSequence(wire)
          /\ pc \in LoopPcs => EnableReachedServos
          /\ lastOp = "set_position_all" => pc \in LoopPcs
          /\ (lastOp \in StartupOps /\ ~lastOk) => pc = "aborted")
    /\ [][(pc' \in LoopPcs /\ pc \notin LoopPcs)
             => (pc = "turn_on" /\ lastOp' = "turn_on" /\ lastOk')]_vars
    /\ [][pc = "aborted" => pc' = "aborted"]_vars

(* A per-tick group write has been made, after a start-up in which the head
   gains differ from the leg gains. *)
C11_Witness ==
    /\ lastOp = "set_position_all"
    /\ lastOk
    /\ Len(wire) = 1
    /\ EnableReachedServos
    /\ args.kp = 300

----------------------------------------------------------------------------
(* Properties of the control loop, checked under SpecLoop. *)

(* No group write of goal positions is among the frames the iteration's last
   bus call wrote. *)
NoTargetFrame ==
    \A j \in 1..Len(wire) : wire[j][5] # INST_SYNC_WRITE

(* The action history and the stored targets are as the iteration found
   them. *)
HistoryAndTargetsKept ==
    /\ LoopState.history = iter.top.history
    /\ LoopState.targets = iter.top.targets

(* C12: a tick whose position or velocity read returns None is skipped: no
   inference call, no motor write (the previous target is not sent again),
   the action history and the stored targets unchanged, and the loop is at
   its next iteration. *)
C12_ReadFailureSkipsTick ==
    iter.failed = "read" =>
        /\ pc = "tick"
        /\ iter.infers = 0
        /\ iter.writes = 0
        /\ NoTargetFrame
        /\ HistoryAndTargetsKept

(* The velocity read fails in a tick after one that wrote targets. *)
C12_Witness ==
    /\ iter.failed = "read"
    /\ iter.reads = 2
    /\ readResult = <<>>
    /\ motor_targets # init_positions_array
    /\ dev[JOINT_IDS[1]][ADDR_GOAL_POSITION]
          = rad_to_raw(motor_targets[1] + offsets[1])

(* C13: a tick whose inference call fails does not end the loop: it is
   skipped with the action history and the stored targets unchanged and no
   motor write, and the loop is at its next iteration. *)
C13_InferenceFailureSkipsTick ==
    iter.failed = "infer" =>
        /\ pc = "tick"
        /\ iter.infers = 1
        /\ iter.writes = 0
        /\ NoTargetFrame
        /\ HistoryAndTargetsKept

(* The inference call fails, on an observation of the right length, after a
   tick that shifted the history. *)
C13_Witness ==
    /\ iter.failed = "infer"
    /\ iter.obs_len = policy.obs_dim
    /\ last_action # ZeroAction
    /\ pc = "tick"

(* C14: a transport error in the per-tick motor write does not end the loop:
   the frame is dropped, the write is made once, and the loop is at its next
   iteration; every motor write sends the targets computed by that tick's
   own inference call. *)
C14_WriteErrorNotFatal ==
    /\ iter.failed = "write" =>
          /\ pc \in {"pace", "tick"}
          /\ iter.writes = 1
          /\ wire = <<>>
    /\ lastOp = "set_position_all" =>
          /\ iter.infers = 1
          /\ iter.writes = 1
          /\ lastArg = make_action_dict(motor_targets)
          /\ motor_targets = head_override(iter.staged)
          /\ iter.unfiltered = targets_of(last_action)

(* A write fails in the second iteration or later, the servos still holding
   an earlier target. *)
C14_Witness ==
    /\ iter.failed = "write"
    /\ iterations >= 2
    /\ iterations < MaxIterations
    /\ pc = "tick"
    /\ dev[JOINT_IDS[1]][ADDR_GOAL_POSITION]
          # rad_to_raw(motor_targets[1] + offsets[1])

(* C15: an observation whose length is not the one the policy expects stops
   the process with a fatal configuration error; the loop does not go on. *)
C15_ObservationMismatchIsFatal ==
    (iter.infers = 1 /\ iter.obs_len # policy.obs_dim) => pc = "aborted"

(* C16: an iteration that is paused after the input handling makes no group
   read, no inference call and no motor write, leaves the step index, the
   action history and the stored targets unchanged, and goes back to the
   input. *)
C16_PausedIterationIdle ==
    iter.paused =>
        /\ pc = "tick"
        /\ iter.reads = 0
        /\ iter.infers = 0
        /\ iter.writes = 0
        /\ wire = <<>>
        /\ LoopState = iter.top

(* A paused iteration after a tick that advanced the phase and wrote
   targets, its input having changed the offset. *)
C16_Witness ==
    /\ iter.paused
    /\ iterations >= 2
    /\ phase_tracker.step_index # 0
    /\ motor_targets # init_positions_array
    /\ phase_tracker.frequency_factor_offset # 0

----------------------------------------------------------------------------
(* Properties of the gait-phase tracker, checked under SpecPhase. *)

(* C17: after any sequence of step, set_sprint and adjust_offset calls the
   step index lies in [0, nb_steps_in_period), whatever the sign or size of
   the per-tick increment. *)
C17_StepIndexInPeriod ==
    /\ 0 <= phase_tracker.step_index
    /\ phase_tracker.step_index < Period

(* C18: with a constant increment that divides the period evenly, after
   exactly period / increment calls of step, from any step index, the step
   index equals its starting value. *)
C18_RunReturnsToStart ==
    (/\ RunCounted(phase_tracker)
     /\ run_len = Period \div Increment(phase_tracker))
        => phase_tracker.step_index = run_start

----------------------------------------------------------------------------
(* Properties of one button, checked under SpecButton. *)

(* C19: in every update, triggered is true only if the button is pressed in
   this update, was not pressed in the update before, and more than TIMEOUT
   has passed since the trigger before; a press after a release inside that
   window gives is_pressed without triggered. *)
C19_TriggerDebounced ==
    [][tick' = tick + 1 =>
        /\ buttons_a'.triggered =>
              /\ a_pressed'
              /\ buttons_a'.is_pressed
              /\ ~buttons_a.is_pressed
              /\ triggers # <<>> => now' - triggers[Len(triggers)] > TIMEOUT
        /\ (/\ a_pressed'
            /\ triggers # <<>>
            /\ now' - triggers[Len(triggers)] <= TIMEOUT)
              => /\ buttons_a'.is_pressed
                 /\ ~buttons_a'.triggered]_vars

(* A press after a release, inside the window of the trigger before it. *)
C19_Witness ==
    /\ buttons_a.is_pressed
    /\ ~buttons_a.triggered
    /\ presses # <<>>
    /\ presses[Len(presses)] = now
    /\ triggers # <<>>
    /\ triggers[Len(triggers)] < now
    /\ now - triggers[Len(triggers)] <= TIMEOUT

(* C20: two presses with a release sampled between them, at any times since
   the thread started, give one trigger in total when they are less than
   TIMEOUT apart and two triggers when they are more than TIMEOUT apart. *)
C20_TwoPressesTriggerCount ==
    Len(presses) = 2 =>
        /\ presses[2] - presses[1] < TIMEOUT => Len(triggers) = 1
        /\ presses[2] - presses[1] > TIMEOUT => Len(triggers) = 2


(* C21: while the button is held with no release between, triggered is true
   in at most one update, the one of the press: an update that finds the
   button already pressed never triggers, and the update after a trigger has
   triggered false. *)
C21_HeldNeverRetriggers ==
    [][tick' = tick + 1 =>
        /\ (buttons_a.is_pressed /\ a_pressed') => ~buttons_a'.triggered
        /\ buttons_a.triggered => ~buttons_a'.triggered]_vars

(* The button is still held, more than TIMEOUT after the press that
   triggered, at least two updates later. *)
C21_Witness ==
    /\ buttons_a.is_pressed
    /\ ~buttons_a.triggered
    /\ triggers # <<>>
    /\ presses # <<>>
    /\ presses[Len(presses)] = triggers[Len(triggers)]
    /\ now - triggers[Len(triggers)] > 2 * TIMEOUT

----------------------------------------------------------------------------
(* Properties of the producer threads, checked under SpecProducers and
   SpecStopFair. *)

(* C22: get_last_command and get_data can be called in every state of the
   producer and return at once; what they return is the startup default or
   a value the producer published; once the producer has exited and the slot
   is drained they keep returning the last value received. *)
C22_GetLatestNeverWaits ==
    /\ [](xbox = "some" => ENABLED MainGamepadInput)
    /\ []((imu = "some" /\ gets < MaxGets) => ENABLED ImuGetData)
    /\ [](/\ last_output.sample \in 0..tick
          /\ last_output.sample = 0 => last_output = ControllerOutputDefault
          /\ last_data \in 0..published)
    /\ [][/\ (worker = "exited" /\ data_ch = <<>>)
               => (last_output' = last_output /\ data_ch' = <<>>)
          /\ (imu_pc = "exited" /\ imu_ch = <<>>)
               => (last_data' = last_data /\ imu_ch' = <<>>)
          /\ (gets' = gets + 1)
               => last_data' = (IF imu_ch # <<>> THEN Head(imu_ch)
                                ELSE last_data)]_vars

(* get_data was called after the IMU thread exited: the thread has taken the
   stop signal, the slot is drained, and every call allowed was made; the
   value held is the last one published. *)
C22_Witness ==
    /\ imu = "some"
    /\ imu_pc = "exited"
    /\ imu_ch = <<>>
    /\ gets = MaxGets
    /\ published >= 2
    /\ last_data = published

(* C23: a get_data call that starts after a publish has completed returns
   that sample or a newer one, under every interleaving of imu_worker and
   the caller. *)
C23_GetDataRecent ==
    [][gets' = gets + 1 => last_data' >= published]_vars

(* C24, as stated: a thread that was running when stop was requested has
   received the stop signal exactly once when it has exited. *)
C24_StopReceivedExactlyOnce ==
    /\ (worker = "exited" /\ stops["xbox"].live) => stops["xbox"].recv = 1
    /\ (imu_pc = "exited" /\ stops["imu"].live) => stops["imu"].recv = 1

(* C24, amended: stop can be called in every state and leaves at most one
   signal in the stop channel; a thread receives the signal at most once;
   a thread that was running when stop was requested and has exited
   received it once, unless it returned on its own: its handle was destroyed
   (try_send found the data channel disconnected) or, for the gamepad
   thread, the gamepad library failed to initialise. *)
C24_StopIdempotent ==
    /\ Len(stop_ch) <= 1
    /\ Len(imu_stop_ch) <= 1
    /\ (xbox = "some" /\ stops["xbox"].calls < MaxStops)
          => ENABLED XBoxControllerStop
    /\ (imu = "some" /\ stops["imu"].calls < MaxStops) => ENABLED ImuStop
    /\ \A p \in Producers : stops[p].recv <= 1
    /\ (worker = "exited" /\ stops["xbox"].live /\ stops["xbox"].recv = 0)
          => (xbox = "dropped" \/ tick = 0)
    /\ (imu_pc = "exited" /\ stops["imu"].live /\ stops["imu"].recv = 0)
          => imu = "dropped"
    /\ (worker = "exited" /\ stops["xbox"].recv = 1) => stops["xbox"].live
    /\ (imu_pc = "exited" /\ stops["imu"].recv = 1) => stops["imu"].live

(* stop() and then the handle's destruction, the gamepad thread running all
   along: it has taken one signal and exited, after sampling. *)
C24_Witness ==
    /\ xbox = "dropped"
    /\ stops["xbox"].calls = 2
    /\ stops["xbox"].live
    /\ stops["xbox"].recv = 1
    /\ worker = "exited"
    /\ tick >= 1
    /\ stop_ch = <<>>

(* C25: after stop is signalled or the handle destroyed, the thread takes the
   signal at the top of its next iteration and publishes nothing after that;
   under fair scheduling it exits, also when its sensor reads keep failing. *)
C25_StopEndsThread ==
    /\ [][/\ (worker = "top" /\ stop_ch # <<>> /\ worker' # worker)
               => (worker' = "exited" /\ data_ch' = data_ch)
          /\ (imu_pc = "top" /\ imu_stop_ch # <<>> /\ imu_pc' # imu_pc)
               => (imu_pc' = "exited" /\ imu_ch' = imu_ch)
          /\ worker = "exited" => (worker' = "exited" /\ data_ch' \in {data_ch, <<>>})
          /\ imu_pc = "exited" => (imu_pc' = "exited" /\ imu_ch' \in {imu_ch, <<>>})]_vars
    /\ (stops["xbox"].live \/ (xbox = "dropped" /\ WorkerRuns))
          ~> (worker = "exited")
    /\ (stops["imu"].live \/ (imu = "dropped" /\ ImuWorkerRuns))
          ~> (imu_pc = "exited")


(* The IMU thread has exited on a stop signal sent while it ran, a sample of
   its own still in the slot. *)
C25_Witness ==
    /\ imu = "some"
    /\ imu_pc = "exited"
    /\ stops["imu"].live
    /\ stops["imu"].recv = 1
    /\ imu_n >= 1
    /\ imu_ch # <<>>

----------------------------------------------------------------------------
(* Properties of the unit conversions, checked under SpecUnit. *)

(* The angles covered by raw 0..4095. *)
InPhysicalRange(r) == raw_to_rad(0) <= r /\ r <= raw_to_rad(4095)

Abs(x) == IF x < 0 THEN -x ELSE x

(* C26: for every angle r in the range of raw 0..4095,
   raw_to_rad(rad_to_raw(r)) differs from r by less than one raw step. *)
C26_UnitRoundTrip ==
    (unit_pc = "back" /\ InPhysicalRange(rad_in))
        => Abs(rad_back - rad_in) < AnglePerStep

(* A negative angle inside a raw step has made the round trip and come back
   changed. *)
C26_Witness ==
    /\ unit_pc = "back"
    /\ InPhysicalRange(rad_in)
    /\ rad_in < 0
    /\ rad_back # rad_in
    /\ raw_out > 0

----------------------------------------------------------------------------
(* Properties of turn_off, checked under SpecDisable. *)

TorqueOffEverywhere ==
    \A id \in IdSet : dev[id][ADDR_TORQUE_ENABLE] = 0

(* C27: turn_off fails only when the transport fails, a second call in a row
   included, and after every call that succeeded the last torque-enable
   value written to each of the servos is 0. *)
C27_DisableIdempotent ==
    /\ \A k \in 1..Len(disables) :
          disables[k].budget = NUM_DOFS => disables[k].ok
    /\ (disables # <<>> /\ disables[Len(disables)].ok) => TorqueOffEverywhere

(* Two calls in a row on a started controller, the transport not failing. *)
C27_Witness ==
    /\ Len(disables) = 2
    /\ disables[1].ok
    /\ disables[2].ok
    /\ TorqueOffEverywhere
    /\ pc = "tick"
    /\ Len(wire) = NUM_DOFS

----------------------------------------------------------------------------
(* Properties of the action filters, checked under SpecFilter and
   SpecLowPass. *)

(* The last n elements of s. *)
Recent(s, n) == SubSeq(s, Len(s) - n + 1, Len(s))

(* The vectors the filter should hold after the pushes made. *)
Window == Recent(pushed, Min(Len(pushed), action_filter.window_size))

(* C28: after any sequence of pushes the filter holds the most recent
   min(k, window_size) vectors pushed, and get_filtered_action returns their
   element-wise mean, the empty vector when there is none; [1,2], [4,5],
   [7,8] with window size 3 give [4,5]. *)
C28_MovingAverage ==
    /\ action_filter.buffer = Window
    /\ filtered_at = Len(pushed) =>
          IF Window = <<>> THEN filtered = <<>>
          ELSE /\ Len(filtered) = Len(Window[1])
               /\ \A i \in 1..Len(filtered) :
                     filtered[i] * Len(Window) = ColumnSum(Window, i)
    /\ (/\ pushed = << <<6, 12>>, <<24, 30>>, <<42, 48>> >>
        /\ action_filter.window_size = 3
        /\ filtered_at = 3)
          => filtered = <<24, 30>>

(* Four pushes into a window of three, the first being [1,2]: the mean is
   taken over the last three. *)
C28_Witness ==
    /\ action_filter.window_size = 3
    /\ Len(pushed) = MaxPushes
    /\ pushed[1] = <<6, 12>>
    /\ SubSeq(pushed, 2, 4) = << <<24, 30>>, <<42, 48>>, <<-6, 0>> >>
    /\ filtered_at = MaxPushes
    /\ filtered = <<20, 26>>

(* C29: with cutoff 30 Hz and control 50 Hz, pushing the same target and
   calling get_filtered_action after each push, every component of the
   output is within 0.01 of the target after 200 ticks and on every later
   call. *)
C29_LowPassConverges ==
    lp_ticks >= ConvergeTicks =>
        /\ Len(low_pass.last_action) = Len(lp_target)
        /\ \A i \in 1..Len(lp_target) :
              Abs(low_pass.last_action[i] - lp_target[i]) * 100 < LowPassUnit

(* Tick 200 of a filter that was first given a vector far from the
   target. *)
C29_Witness ==
    /\ lp_ticks = ConvergeTicks
    /\ low_pass.last_action # lp_target
    /\ low_pass.current_action = lp_target

----------------------------------------------------------------------------
(* The order of a tick's steps, checked under SpecLoop. *)

(* C30: in a running tick the gait phase advances before the group read:
   once the tick has made a read, also one that failed, the step index is
   one advance past its value at the top of the tick. *)
C30_PhaseAdvancesBeforeRead ==
    (~iter.paused /\ iter.reads >= 1) =>
        phase_tracker.step_index =
            fmod(iter.top.step_index + Increment(phase_tracker), Period)

----------------------------------------------------------------------------
(* C31: set_sprint(b) sets the frequency multiplier to 1.3 when b is true and
   to 1.0 otherwise and leaves the step index and the additive offset as
   they were; adjust_offset(delta) adds delta to the additive offset and
   leaves the step index and the multiplier as they were; at every moment
   the offset is the configured one plus every delta given, however many
   set_sprint calls were made in between. *)
C31_SprintAndOffsetFrames ==
    /\ phase_call.op = "set_sprint" =>
        /\ phase_tracker.frequency_factor =
              IF phase_call.sprint THEN 26 ELSE 20
        /\ phase_tracker.step_index = phase_call.before.step_index
        /\ phase_tracker.frequency_factor_offset =
              phase_call.before.frequency_factor_offset
    /\ phase_call.op = "adjust_offset" =>
        /\ phase_tracker.frequency_factor_offset =
              phase_call.before.frequency_factor_offset + phase_call.delta
        /\ phase_tracker.step_index = phase_call.before.step_index
        /\ phase_tracker.frequency_factor =
              phase_call.before.frequency_factor
    /\ phase_tracker.frequency_factor_offset = offset_given

(* Sprint is switched off on a tracker that has advanced, was sprinting and
   has had its offset adjusted twice. *)
C31_Witness ==
    /\ phase_call.op = "set_sprint"
    /\ ~phase_call.sprint
    /\ phase_call.before.frequency_factor = 26
    /\ phase_tracker.step_index > 0
    /\ adjusts = MaxAdjust
    /\ offset_given # 0

----------------------------------------------------------------------------
(* The time of the last trigger before time p; 0, the start of the input
   thread, when there is none. *)
TriggerBefore(p) ==
    MaxOf({0} \cup {triggers[i] : i \in {j \in 1..Len(triggers) : triggers[j] < p}})

(* C39: while a button is held whose press began, after a release, within
   TIMEOUT of the trigger before it (or of the start of the input thread),
   no update triggers, however long it is held: every trigger is older than
   that press. *)
C39_RejectedPressNeverTriggers ==
    (/\ buttons_a.is_pressed
     /\ presses # <<>>
     /\ presses[Len(presses)] - TriggerBefore(presses[Len(presses)]) <= TIMEOUT)
        => /\ ~buttons_a.triggered
           /\ \A i \in 1..Len(triggers) : triggers[i] < presses[Len(presses)]

(* A press 100 ms after a trigger, with a release between, still held more
   than TIMEOUT after that trigger. *)
C39_Witness ==
    /\ buttons_a.is_pressed
    /\ presses # <<>>
    /\ triggers # <<>>
    /\ triggers[Len(triggers)] < presses[Len(presses)]
    /\ presses[Len(presses)] - triggers[Len(triggers)] <= TIMEOUT
    /\ now > presses[Len(presses)]
    /\ now - triggers[Len(triggers)] > TIMEOUT

----------------------------------------------------------------------------
(* Properties of the frames, checked under Spec. *)

(* The parameter bytes of a frame: what lies between the instruction byte
   and the checksum. *)
ParameterBytes(f) == Len(f) - 6

(* C35, as stated: in every frame written to the port the Length byte is the
   number of parameter bytes plus 3. *)
C35_LengthIsParametersPlus3 ==
    \A j \in 1..Len(wire) : wire[j][4] = ParameterBytes(wire[j]) + 3

(* C35, amended: in every frame written to the port (single-register write,
   group write, group-read request) the Length byte is the number of
   parameter bytes plus 2: the parameters, the instruction byte and the
   checksum. *)
C35_LengthIsParametersPlus2 ==
    \A j \in 1..Len(wire) :
        /\ wire[j][5] \in {INST_WRITE, INST_SYNC_WRITE, INST_SYNC_READ}
        /\ wire[j][4] = ParameterBytes(wire[j]) + 2

(* A group-read request for all the joints has been written. *)
C35_Witness ==
    /\ lastOp = "get_present_velocities"
    /\ Len(wire) = 1
    /\ wire[1][5] = INST_SYNC_READ
    /\ ParameterBytes(wire[1]) = NUM_DOFS + 2

(* The raw positions a group-write frame carries. *)
GroupWriteValues(f) ==
    {read_i16_le(<<f[9 + 3 * k], f[10 + 3 * k]>>) :
        k \in 0..(((Len(f) - 8) \div 3) - 1)}

(* C36: every raw goal position in a group-write frame is in 0..4095; a
   target that, with its offset, lies at or below the lower end of the range
   is sent as 0 and one at or above the upper end as 4095, however far
   outside it lies. *)
C36_GoalPositionsSaturate ==
    /\ \A j \in 1..Len(wire) :
          wire[j][5] = INST_SYNC_WRITE => GroupWriteValues(wire[j]) \subseteq 0..4095
    /\ (lastOp = "set_position_all" /\ lastOk) =>
          \A i \in DOMAIN lastArg :
              LET x == lastArg[i] + offsets[i]
                  v == FrameValue(wire[1], JOINT_IDS[i])
              IN /\ x <= raw_to_rad(0) => v = 0
                 /\ x >= raw_to_rad(4095) => v = 4095

(* A frame has been written with a target more than 7 turns above the
   centre, beyond the 16-bit range, and one above the servo's range only. *)
C36_Witness ==
    /\ lastOp = "set_position_all"
    /\ lastOk
    /\ Len(wire) = 1
    /\ \E i \in DOMAIN lastArg :
          /\ lastArg[i] + offsets[i] > raw_to_rad(32767)
          /\ FrameValue(wire[1], JOINT_IDS[i]) = 4095
    /\ \E i \in DOMAIN lastArg :
          /\ offsets[i] # 0
          /\ lastArg[i] + offsets[i] > raw_to_rad(4095)
          /\ lastArg[i] + offsets[i] < raw_to_rad(32767)

----------------------------------------------------------------------------
(* Properties of the control loop's history, filter stage and pacing,
   checked under SpecLoop. *)

(* The three newest entries of seq, newest first, zero vectors standing in
   for the ones that do not exist. *)
Recent3(seq) ==
    [k \in 1..3 |-> IF Len(seq) >= k THEN seq[Len(seq) - k + 1] ELSE ZeroAction]

(* The iteration's inference call has returned an action. *)
InferenceDone == iter.infers = 1 /\ iter.failed # "infer"

(* C32: the action history is the three newest actions inference has
   returned, newest first, with zero vectors until three exist; the
   observation of a tick carries the history of the ticks before it, without
   the action inferred from that observation. *)
C32_HistoryRing ==
    /\ <<last_action, last_last_action, last_last_last_action>> = Recent3(inferred)
    /\ iter.infers = 1 =>
          LET prev == IF InferenceDone
                      THEN SubSeq(inferred, 1, Len(inferred) - 1)
                      ELSE inferred
              h == Recent3(prev)
          IN /\ iter.top.history = h
             /\ SubSeq(iter.obs, 42, 41 + Len(h[1]) + Len(h[2]) + Len(h[3]))
                   = h[1] \o h[2] \o h[3]

(* The third action in a row has been inferred, the first two different, and
   the observation it was inferred from holds the first two and a zero
   vector. *)
C32_Witness ==
    /\ pc = "write"
    /\ InferenceDone
    /\ Len(inferred) = 3
    /\ inferred[1] # inferred[2]
    /\ last_last_last_action = inferred[1]
    /\ SubSeq(iter.obs, 42, 83) = inferred[2] \o inferred[1] \o ZeroAction

(* C33: in a tick that has completed inference the targets are the output
   of the filter stage with command axes 3..6 added on the head joints
   (canonical indices 5..8) and nothing added elsewhere; the filter has been
   given the targets without the commands, and what it holds lies between
   the lowest and the highest target the policy's actions give. *)
C33_HeadOverrideAfterFilter ==
    InferenceDone =>
        /\ Len(motor_targets) = Len(iter.staged)
        /\ \A i \in 1..Len(motor_targets) :
              motor_targets[i] =
                  iter.staged[i]
                  + (IF Len(motor_targets) > 8 /\ i \in 6..9
                     THEN last_commands[i - 2] ELSE 0)
        /\ iter.staged = IF main_filter # <<>> /\ iter.elapsed > 1000
                         THEN main_filter[1].last_action
                         ELSE iter.unfiltered
        /\ main_filter # <<>> =>
              /\ main_filter[1].current_action = targets_of(last_action)
              /\ \A i \in 1..Len(main_filter[1].last_action) :
                    /\ \E a \in ActionValues :
                          main_filter[1].last_action[i]
                             >= init_positions_array[i] + a \div action_scale_inv
                    /\ \E a \in ActionValues :
                          main_filter[1].last_action[i]
                             <= init_positions_array[i] + a \div action_scale_inv

(* Filtered targets with head commands added have been written: the action
   is the highest one and the command on joint 6 is positive, so that the
   command inside the filter would show. *)
C33_Witness ==
    /\ InferenceDone
    /\ iter.writes = 1
    /\ lastOk
    /\ main_filter # <<>>
    /\ iter.elapsed > 1000
    /\ iter.staged # iter.unfiltered
    /\ last_commands[4] > 0
    /\ last_action[6] = 12000
    /\ motor_targets[6] = iter.staged[6] + last_commands[4]

(* C34: with a filter, a tick that reads at most one second since the start
   of the loop sends the unfiltered targets, init + action * scale with the
   head commands added; a tick after the first second sends the filtered
   ones. *)
C34_FilterBypassedFirstSecond ==
    (main_filter # <<>> /\ InferenceDone) =>
        /\ iter.elapsed >= 0
        /\ iter.elapsed <= 1000 =>
              motor_targets = head_override(targets_of(last_action))
        /\ iter.elapsed > 1000 =>
              motor_targets = head_override(main_filter[1].last_action)
        /\ iter.writes = 1 => lastArg = make_action_dict(motor_targets)

(* A tick at exactly one second has written unfiltered targets although the
   filter, given an earlier target, would have returned other ones. *)
C34_Witness ==
    /\ main_filter # <<>>
    /\ InferenceDone
    /\ iter.elapsed = 1000
    /\ iter.writes = 1
    /\ lastOk
    /\ main_filter[1].last_action # main_filter[1].current_action

(* A group read that got some bytes, fewer than all the replies. *)
ShortRead(n) == n >= 1 /\ n < (6 + 2) * NUM_DOFS

(* C37: a tick is skipped for a read only when the read got no byte at all;
   after a position read that got some bytes but not all, every servo whose
   reply is not complete has the position raw 0 converts to, less its
   offset, which is not 0, and after such a velocity read the velocity 0;
   the observation of the tick is built from these values. *)
C37_ShortReadGoesOn ==
    /\ iter.failed = "read" => iter.got[Len(iter.got)] = 0
    /\ (Len(iter.got) >= 1 /\ ShortRead(iter.got[1])) =>
          /\ Len(dof_pos) = NUM_DOFS
          /\ \A i \in Joints :
                (6 + 2) * i > iter.got[1] =>
                    /\ dof_pos[i] = raw_to_rad(0) - offsets[i]
                    /\ dof_pos[i] # 0
                    /\ iter.infers = 1 =>
                          iter.obs[13 + i] = dof_pos[i] - init_positions_array[i]
    /\ (Len(iter.got) = 2 /\ ShortRead(iter.got[2]) /\ iter.infers = 1) =>
          \A i \in Joints :
              (6 + 2) * i > iter.got[2] => iter.obs[27 + i] = 0

(* Both reads of a tick were short, inference ran and the targets were
   written. *)
C37_Witness ==
    /\ Len(iter.got) = 2
    /\ ShortRead(iter.got[1])
    /\ ShortRead(iter.got[2])
    /\ iter.failed = "none"
    /\ iter.infers = 1
    /\ iter.writes = 1
    /\ lastOp = "set_position_all"
    /\ lastOk
    /\ Len(wire) = 1

(* The targets in an observation: the entries before the feet contacts and
   the phase. *)
ObsTargets(obs, n) == SubSeq(obs, Len(obs) - 3 - n, Len(obs) - 4)

(* C38: the stored targets an observation carries are the ones given to the
   last set_position_all call of the loop, whether that call returned Ok or
   an error, and the init positions when there was no call; they are the
   targets of the last tick that completed inference, after the filter
   stage and the head commands. *)
C38_ObservationCarriesLastTargets ==
    /\ (iter.infers = 1 /\ iter.writes = 0) =>
          LET t == IF handed = <<>> THEN init_positions_array
                   ELSE handed[1].targets
          IN /\ iter.top.targets = t
             /\ ObsTargets(iter.obs, Len(t)) = t
             /\ Len(iter.obs) = 45 + Len(iter.top.history[1])
                                + Len(iter.top.history[2])
                                + Len(iter.top.history[3]) + Len(t)
    /\ iter.writes = 1 =>
          /\ handed # <<>>
          /\ handed[1].targets = head_override(iter.staged)
          /\ handed[1].ok = lastOk

(* An observation has been built that carries targets whose write failed:
   the servo of joint 1 holds another goal position. *)
C38_Witness ==
    /\ iter.infers = 1
    /\ iter.writes = 0
    /\ handed # <<>>
    /\ ~handed[1].ok
    /\ ObsTargets(iter.obs, NUM_DOFS) = handed[1].targets
    /\ handed[1].targets # init_positions_array
    /\ dev[JOINT_IDS[1]][ADDR_GOAL_POSITION]
          # rad_to_raw(handed[1].targets[1] + offsets[1])

(* C40: a running tick skipped for a read failure or an inference failure
   has not gone through the timing block: no sleep, no motor write, and the
   loop is at the top of its next iteration; only a tick that made the motor
   write goes through it. *)
C40_SkippedTickUnpaced ==
    /\ iter.failed \in {"read", "infer"} =>
          /\ ~iter.paused
          /\ iter.sleep = "none"
          /\ iter.writes = 0
          /\ pc = "tick"
    /\ pc = "pace" => iter.writes = 1
    /\ iter.sleep = "budget" => iter.writes = 1

(* Every iteration so far was skipped, the last for a read that was sent and
   not answered: nothing was inferred or written, and nothing slept. *)
C40_Witness ==
    /\ iterations = MaxIterations
    /\ iter.failed = "read"
    /\ iter.sleep = "none"
    /\ wire # <<>>
    /\ inferred = <<>>
    /\ handed = <<>>
    /\ ~paused
    /\ pc = "tick"

====
